---- MODULE Spec2Model ----
(***************************************************************************)
(* Model of the TDD automation harness: the escalation workflow of         *)
(* functional_tdd.py (roles, TaskContext, execute_functional_workflow),    *)
(* the git coordinator and session driver of lifecycle_tdd.py, and the     *)
(* precondition validators of validators.py.                               *)
(*                                                                         *)
(* External tools (task-master, git, the TDD executor) are modelled by     *)
(* the outcomes they can hand back: every call draws its outcome from a    *)
(* small set.  A text is modelled as the set of phrases that occur in it;  *)
(* the code's substring tests become membership tests through Has.         *)
(***************************************************************************)
EXTENDS Integers, Sequences, FiniteSets, TLC

VARIABLES
    \* execute_functional_workflow and the role functions
    pc,                 \* position of the driver
    current_function,   \* the role the driver invokes next
    iteration,          \* the driver's loop counter
    context,            \* the TaskContext object in use
    result,             \* AgentResult of the latest role invocation
    returned,           \* what execute_functional_workflow returned
    call,               \* latest role invocation: role, argument, outcomes drawn
    cmds,               \* external commands issued by the latest role invocation
    \* orchestrator_git_function
    git_context,        \* the session's GitContext object
    repo,               \* the repository: checked-out branch, branches, tags, commits
    git_call,           \* latest coordinator operation: action, task, state before
    git_result,         \* AgentResult of the latest coordinator operation
    git_cmds,           \* git/tracker commands of the latest coordinator operation
    \* run_development_session
    session_result,     \* the session report being built
    task_count,         \* the session's loop counter
    next_task,          \* the task being processed ("None": none)
    tester_result,      \* what enhanced_tester_function returned for it
    attempt_log,        \* what was done for the task being processed, in order
    asked,              \* how often the tracker was asked for the next task
    \* validators called directly
    vcall,              \* validator called, task id and the answers drawn
    vresult             \* the ValidationResult it returned

wfVars == <<pc, current_function, iteration, context, result, returned, call, cmds>>

gitVars == <<git_context, repo, git_call, git_result, git_cmds>>

sessVars == <<session_result, task_count, next_task, tester_result, attempt_log, asked>>

valVars == <<vcall, vresult>>

vars == <<wfVars, gitVars, sessVars, valVars>>

(***************************************************************************)
(* Texts                                                                   *)
(***************************************************************************)

\* needle/phrase pairs where the needle is a proper substring of the phrase
SubstringPairs ==
    { <<"test", "test case 1:">>, <<"test", "test case 2:">>,
      <<"test", "timestamp test">>, <<"timestamp", "timestamp test">>,
      <<"subtask", "subtask:">>, <<"subtask", "subtasks:">>,
      <<"error", "error: command failed">>,
      <<"pending", "(circle) pending">>,
      <<"invalid dependencies", "no invalid dependencies found">> }

\* Python's `needle in text`
Has(needle, text) ==
    \E p \in text : needle = p \/ <<needle, p>> \in SubstringPairs

(***************************************************************************)
(* TaskContext                                                             *)
(***************************************************************************)

Edges == {"tester->planner", "planner->researcher",
          "researcher->orchestrator", "orchestrator->human"}

Tasks == {"2.1", "2.2"}

\* an empty dict (also stands for a context_update of None: both are falsy)
EmptyDict == [k \in {} |-> ""]

\* TaskContext(task_id, project_path, current_phase) after __post_init__
NewContext(task_id, phase) ==
    [ task_id          |-> task_id,
      current_phase    |-> phase,
      history          |-> <<>>,
      escalation_count |-> [e \in Edges |-> 0],
      data             |-> EmptyDict ]

EdgeKey(from_agent, to_agent) ==
    CASE from_agent = "tester"       /\ to_agent = "planner"      -> "tester->planner"
      [] from_agent = "planner"      /\ to_agent = "researcher"   -> "planner->researcher"
      [] from_agent = "researcher"   /\ to_agent = "orchestrator" -> "researcher->orchestrator"
      [] from_agent = "orchestrator" /\ to_agent = "human"        -> "orchestrator->human"

Reason(text, n) == [text |-> text, n |-> n]

\* mutant: escalate that records the transition without counting it
escalate_nocount(ctx, from_agent, to_agent, reason) ==
    [ctx EXCEPT !.history = Append(@, [from |-> from_agent, to |-> to_agent,
                                       reason |-> reason])]

\* mutant: escalate that counts the transition without recording it
escalate_norecord(ctx, from_agent, to_agent, reason) ==
    [ctx EXCEPT !.escalation_count[EdgeKey(from_agent, to_agent)] = @ + 1]

\* TaskContext.escalate: changes the object it is called on
escalate(ctx, from_agent, to_agent, reason) ==
    [ctx EXCEPT
        !.escalation_count[EdgeKey(from_agent, to_agent)] = @ + 1,
        !.history = Append(@, [from |-> from_agent, to |-> to_agent,
                               reason |-> reason])]

\* {**a, **b}
DictMerge(a, b) ==
    [k \in (DOMAIN a) \cup (DOMAIN b) |-> IF k \in DOMAIN b THEN b[k] ELSE a[k]]

\* kwargs.get(key, default)
KwGet(kwargs, key, default) ==
    IF key \in DOMAIN kwargs THEN kwargs[key] ELSE default

\* mutant: the new context starts with an empty history
update_forgets_history(ctx, kwargs) ==
    [ task_id          |-> ctx.task_id,
      current_phase    |-> KwGet(kwargs, "current_phase", ctx.current_phase),
      history          |-> <<>>,
      escalation_count |-> ctx.escalation_count,
      data             |-> DictMerge(ctx.data, KwGet(kwargs, "data", EmptyDict)) ]

\* mutant: the data keyword replaces the data bag instead of being merged
update_replaces_data(ctx, kwargs) ==
    [ task_id          |-> ctx.task_id,
      current_phase    |-> KwGet(kwargs, "current_phase", ctx.current_phase),
      history          |-> ctx.history,
      escalation_count |-> ctx.escalation_count,
      data             |-> KwGet(kwargs, "data", ctx.data) ]

\* TaskContext.update(**kwargs): a new object; only the keywords
\* current_phase and data are read, task_id is always copied from self
update(ctx, kwargs) ==
    [ task_id          |-> ctx.task_id,
      current_phase    |-> KwGet(kwargs, "current_phase", ctx.current_phase),
      history          |-> ctx.history,
      escalation_count |-> ctx.escalation_count,
      data             |-> DictMerge(ctx.data, KwGet(kwargs, "data", EmptyDict)) ]

(***************************************************************************)
(* AgentResult                                                             *)
(***************************************************************************)

\* mutant: an escalation meant for the researcher names the orchestrator
AgentResult_skips_researcher(action, data, escalate_to, context_update, message) ==
    [ action |-> action, data |-> data,
      escalate_to |-> IF escalate_to = "researcher" THEN "orchestrator" ELSE escalate_to,
      context_update |-> context_update, message |-> message ]

AgentResult(action, data, escalate_to, context_update, message) ==
    [ action |-> action, data |-> data, escalate_to |-> escalate_to,
      context_update |-> context_update, message |-> message ]

NoResult == [action |-> "none"]

\* what a role invocation hands back: a result, the argument object as the
\* role left it, and the commands it issued
Returns(res, ctx, issued) == [kind |-> "return", result |-> res, ctx |-> ctx, cmds |-> issued]

\* the role let an exception escape
Raises(ctx, issued) == [kind |-> "raise", result |-> NoResult, ctx |-> ctx, cmds |-> issued]

(***************************************************************************)
(* Helper functions of functional_tdd.py                                   *)
(***************************************************************************)

implementable_indicators ==
    { "2.1.1", "2.1.2", "2.1.3", "test case 1:", "test case 2:",
      "assert that", "expect exactly", "function should return",
      "verify format matches pattern" }

LeafMarkers == {"subtask:", "parent task:", "subtasks:", "pending"}

\* mutant: either test is enough
has_implementable_assertions_or(task_details) ==
    \/ \E indicator \in implementable_indicators : Has(indicator, task_details)
    \/ (Has("subtask:", task_details) \/ Has("parent task:", task_details))

\* _has_implementable_assertions, on the lower-cased text
has_implementable_assertions(task_details) ==
    LET has_specific_assertions ==
            \E indicator \in implementable_indicators : Has(indicator, task_details)
        is_leaf_subtask ==
            /\ (Has("subtask:", task_details) \/ Has("parent task:", task_details))
            /\ ~(Has("subtasks:", task_details) /\ Has("pending", task_details))
    IN  has_specific_assertions /\ is_leaf_subtask

\* _execute_tdd_cycle: success is "the cycle raised nothing"
execute_tdd_cycle(tdd) ==
    IF tdd = "raise"
    THEN [success |-> FALSE, error |-> "exception text", verified |-> FALSE]
    ELSE [success |-> TRUE, error |-> "", verified |-> (tdd = "pass")]

success_indicators == {"subtask", "expanded", "created", "breakdown"}

\* _expansion_successful
expansion_successful(expansion) ==
    \E indicator \in success_indicators : Has(indicator, expansion)

\* _get_subtasks: runs "show" and returns the placeholder empty list,
\* also when the call raises
get_subtasks(show_raises) == <<>>

\* the id the tracker gives the first subtask of a task
FirstSubtask(task_id) == task_id \o ".1"

\* _extract_domain
extract_domain(task_details) ==
    IF Has("timestamp", task_details) THEN "time formatting"
    ELSE IF Has("test", task_details) THEN "testing patterns"
    ELSE "implementation patterns"

(***************************************************************************)
(* Outcomes the external tools can hand to one role invocation             *)
(***************************************************************************)

\* indicator phrases that occur in the texts drawn: a subtask number, a
\* numbered test case, an assertion
SampleIndicators == {"2.1.1", "test case 1:", "assert that"}

\* texts "task-master show" can print: at most one indicator phrase together
\* with any of the leaf/parent markers
TaskTexts ==
    { ind \cup leaf : ind \in {{}} \cup {{i} : i \in SampleIndicators},
                      leaf \in SUBSET LeafMarkers }

ExpandTexts == SUBSET success_indicators

DomainTexts == { {}, {"timestamp test"}, {"test case 1:"} }

TddOutcomes == {"pass", "tests_fail", "raise"}

Call(raises, text) == [raises |-> raises, text |-> text]

\* the TDD executor's outcome and whether the following set-status call raises
TddRuns ==
    { [tdd |-> d, set_status_raises |-> r] : d \in TddOutcomes, r \in BOOLEAN }
    \ { [tdd |-> "raise", set_status_raises |-> TRUE] }

TesterEnvs ==
    { [show |-> Call(TRUE, {}), tdd |-> "pass", set_status_raises |-> FALSE] }
    \cup
    { [show |-> Call(FALSE, t), tdd |-> "pass", set_status_raises |-> FALSE]
        : t \in {x \in TaskTexts : ~has_implementable_assertions(x)} }
    \cup
    { [show |-> Call(FALSE, t), tdd |-> o.tdd, set_status_raises |-> o.set_status_raises]
        : t \in {x \in TaskTexts : has_implementable_assertions(x)}, o \in TddRuns }

\* how many subtasks the tracker can list under a task after an expansion
SubtaskCounts == {0, 2}

\* expand: the answer to "expand"; show_raises: whether _get_subtasks' "show"
\* raises; subtasks: how many subtasks that "show" lists under the task
PlannerEnvs ==
    { [expand |-> Call(TRUE, {}), show_raises |-> FALSE, subtasks |-> 0] }
    \cup
    { e \in [expand : {Call(FALSE, t) : t \in ExpandTexts},
             show_raises : BOOLEAN, subtasks : SubtaskCounts] :
        e.show_raises => e.subtasks = 0 }

\* fail_at = 0: nothing raises; fail_at = k: the k-th external step raises
ResearcherEnvs == { [fail_at |-> k, show_text |-> t] : k \in 0..4, t \in DomainTexts }

OrchestratorEnvs == { [fail_at |-> k] : k \in 0..3 }

\* the first k steps, the k-th being the one that raised
Upto(steps, k) == SubSeq(steps, 1, k)

(***************************************************************************)
(* Role functions.  Each takes the context object and the outcomes of the  *)
(* external calls it makes; `ctx` in what it hands back is the argument    *)
(* object after the call (escalate changes it in place).                   *)
(***************************************************************************)

\* mutant: the ceiling test lets one more attempt through
planner_max_attempts_off == 3 + 1

planner_max_attempts == 3
researcher_max_attempts == 3
orchestrator_max_attempts == 3

\* tester_function
tester_function(ctx, env) ==
    IF env.show.raises THEN Raises(ctx, <<"show">>)
    ELSE IF ~has_implementable_assertions(env.show.text) THEN
        Returns(AgentResult("escalate", [task_details |-> env.show.text], "planner",
                            [reason |-> "need_specific_test_cases"],
                            "Task requires breakdown into implementable test cases"),
                escalate(ctx, "tester", "planner",
                         Reason("task needs breakdown into specific test cases", 0)),
                <<"show">>)
    ELSE
        LET tdd_result == execute_tdd_cycle(env.tdd) IN
        IF tdd_result.success THEN
            IF env.set_status_raises THEN
                Returns(AgentResult("fail", [error |-> "exception text"], "None",
                                    EmptyDict, "Tester function error"),
                        ctx, <<"show", "tdd_cycle", "set-status done">>)
            ELSE
                Returns(AgentResult("success", tdd_result, "None", EmptyDict,
                                    "TDD cycle completed"),
                        ctx, <<"show", "tdd_cycle", "set-status done">>)
        ELSE
            Returns(AgentResult("escalate", tdd_result, "planner",
                                [tdd_error |-> tdd_result.error],
                                "TDD execution failed, need planning help"),
                    escalate(ctx, "tester", "planner", Reason("TDD failed", 0)),
                    <<"show", "tdd_cycle">>)

\* mutant: every attempt runs the plain expansion
PlannerStrategy_plain(attempt) == "expand"

PlannerStrategy(attempt) ==
    IF attempt = 1 THEN "expand"
    ELSE IF attempt = 2 THEN "expand --research"
    ELSE "expand --research --prompt"

\* planner_function
planner_function(ctx, env) ==
    LET escalation_key == "planner->researcher"
        count == ctx.escalation_count[escalation_key]
    IN
    IF count >= planner_max_attempts THEN
        LET c2 == escalate(ctx, "planner", "researcher",
                           Reason("cannot break down task after multiple attempts", 0))
        IN  Returns(AgentResult("escalate", [attempts |-> c2.escalation_count[escalation_key]],
                                "researcher", [planning_failed |-> "True"],
                                "Planning exhausted, need deeper research"),
                    c2, <<>>)
    ELSE
        LET attempt == count + 1
            issued  == <<PlannerStrategy(attempt)>>
        IN
        IF env.expand.raises THEN Raises(ctx, issued)
        ELSE IF expansion_successful(env.expand.text) THEN
            LET subtasks == get_subtasks(env.show_raises) IN
            IF subtasks # <<>> THEN
                \* subtask_context = context.update(task_id=..., current_phase=...)
                \* is built and dropped
                Returns(AgentResult("retry",
                                    [subtasks |-> subtasks, expansion_result |-> env.expand.text],
                                    "None", [subtasks_created |-> subtasks],
                                    "Created subtasks, processing first"),
                        ctx, issued \o <<"show">>)
            ELSE
                Returns(AgentResult("escalate", [expansion_result |-> env.expand.text],
                                    "researcher", [expansion_failed |-> "True"],
                                    "Task expansion failed to create subtasks"),
                        escalate(ctx, "planner", "researcher",
                                 Reason("expansion created no actionable subtasks", 0)),
                        issued \o <<"show">>)
        ELSE
            Returns(AgentResult("escalate",
                                [expansion_result |-> env.expand.text, attempt |-> attempt],
                                "researcher", [expansion_failed |-> "True"],
                                "Expansion attempt failed"),
                    escalate(ctx, "planner", "researcher",
                             Reason("expansion attempt failed", attempt)),
                    issued)

ResearchType(attempt) ==
    IF attempt = 1 THEN "complexity_analysis"
    ELSE IF attempt = 2 THEN "domain_research"
    ELSE "integration_research"

\* the external steps of one research attempt, in order
ResearcherSteps(attempt, domain) ==
    ( IF attempt = 1 THEN <<"analyze-complexity --research">>
      ELSE IF attempt = 2 THEN <<"show", "research " \o domain>>
      ELSE <<"research integration patterns">> )
    \o <<"write_file report", "update-subtask research complete">>

\* researcher_function
researcher_function(ctx, env) ==
    LET escalation_key == "researcher->orchestrator"
        count == ctx.escalation_count[escalation_key]
    IN
    IF count >= researcher_max_attempts THEN
        LET c2 == escalate(ctx, "researcher", "orchestrator",
                           Reason("deep research exhausted, may need scope change", 0))
        IN  Returns(AgentResult("escalate", [attempts |-> c2.escalation_count[escalation_key]],
                                "orchestrator", [research_failed |-> "True"],
                                "Research exhausted, may need orchestrator intervention"),
                    c2, <<>>)
    ELSE
        LET attempt == count + 1
            steps   == ResearcherSteps(attempt, extract_domain(env.show_text))
            research_type == ResearchType(attempt)
        IN
        IF env.fail_at = 0 THEN
            \* updated_context = context.update(current_phase=..., data=...)
            \* is built and dropped
            Returns(AgentResult("retry",
                                [research_result |-> "research output",
                                 research_type |-> research_type],
                                "None", [research_completed |-> research_type],
                                "Research complete, retrying planning"),
                    ctx, steps)
        ELSE
            Returns(AgentResult("escalate", [error |-> "exception text", attempt |-> attempt],
                                "orchestrator", [research_error |-> "exception text"],
                                "Research attempt failed"),
                    escalate(ctx, "researcher", "orchestrator",
                             Reason("research attempt failed", attempt)),
                    Upto(steps, env.fail_at))

OrchestratorStrategy(attempt) ==
    IF attempt = 1 THEN "context_switching"
    ELSE IF attempt = 2 THEN "scope_reduction"
    ELSE "dependency_analysis"

\* the external steps of one orchestration attempt, in order
OrchestratorSteps(attempt) ==
    IF attempt = 1 THEN <<"tags", "add-tag", "use-tag">>
    ELSE IF attempt = 2 THEN <<"update-task reduce scope">>
    ELSE <<"validate-dependencies", "update-task check dependencies">>

\* orchestrator_function
orchestrator_function(ctx, env) ==
    LET escalation_key == "orchestrator->human"
        count == ctx.escalation_count[escalation_key]
    IN
    IF count >= orchestrator_max_attempts THEN
        Returns(AgentResult("fail",
                            [requires_human_intervention |-> "True", history |-> ctx.history],
                            "None", EmptyDict,
                            "Task requires human intervention - automation exhausted"),
                ctx, <<>>)
    ELSE
        LET attempt  == count + 1
            steps    == OrchestratorSteps(attempt)
            strategy == OrchestratorStrategy(attempt)
        IN
        IF env.fail_at = 0 THEN
            \* updated_context = context.update(current_phase=..., data=...)
            \* is built and dropped
            Returns(AgentResult("retry", [strategy |-> strategy], "None",
                                [orchestrator_intervention |-> strategy],
                                "Orchestrator applied strategy, retrying workflow"),
                    ctx, steps)
        ELSE
            Returns(AgentResult("fail", [error |-> "exception text", requires_human |-> "True"],
                                "None", EmptyDict, "Orchestration failed"),
                    escalate(ctx, "orchestrator", "human",
                             Reason("orchestration attempt failed", attempt)),
                    Upto(steps, env.fail_at))

\* the steps the role would run for this argument, were it below its ceiling
StepsOf(role, ctx, env) ==
    CASE role = "researcher" ->
            ResearcherSteps(ctx.escalation_count["researcher->orchestrator"] + 1,
                            extract_domain(env.show_text))
      [] role = "orchestrator" ->
            OrchestratorSteps(ctx.escalation_count["orchestrator->human"] + 1)
      [] OTHER -> <<"one step">>

Roles == {"tester", "planner", "researcher", "orchestrator"}

EnvsOf(role) ==
    CASE role = "tester"       -> TesterEnvs
      [] role = "planner"      -> PlannerEnvs
      [] role = "researcher"   -> ResearcherEnvs
      [] role = "orchestrator" -> OrchestratorEnvs

\* calling the function object current_function
Invoke(role, ctx, env) ==
    CASE role = "tester"       -> tester_function(ctx, env)
      [] role = "planner"      -> planner_function(ctx, env)
      [] role = "researcher"   -> researcher_function(ctx, env)
      [] role = "orchestrator" -> orchestrator_function(ctx, env)

\* outcomes that the role's steps can consume; an outcome of a call the role
\* does not make for this argument is held at its first value
EnvFits(role, ctx, env) ==
    CASE role = "researcher" ->
            LET count == ctx.escalation_count["researcher->orchestrator"] IN
            /\ env.fail_at <= Len(StepsOf(role, ctx, env))
            /\ count >= researcher_max_attempts => env.fail_at = 0
            /\ count # 1 => env.show_text = {}
      [] role = "orchestrator" ->
            LET count == ctx.escalation_count["orchestrator->human"] IN
            /\ env.fail_at <= Len(StepsOf(role, ctx, env))
            /\ count >= orchestrator_max_attempts => env.fail_at = 0
      [] role = "planner" ->
            ctx.escalation_count["planner->researcher"] >= planner_max_attempts
                => env = [expand |-> Call(TRUE, {}), show_raises |-> FALSE, subtasks |-> 0]
      [] OTHER -> TRUE
(***************************************************************************)
(* GitContext, the repository and the git gateway                          *)
(***************************************************************************)

\* GitContext() after __post_init__; task_branches is a dict task_id -> branch
NewGitContext ==
    [ base_branch   |-> "main",
      current_branch |-> "main",
      task_branches |-> EmptyDict,
      commits       |-> <<>> ]

\* f"task-{task_id}"
BranchName(task_id) == "task-" \o task_id

\* f"task-{task_id}-complete"
TagName(task_id) == "task-" \o task_id \o "-complete"

\* a fresh clone: the base branch checked out, no task branch, no tag;
\* ncommits counts the commits the repository accepted
NewRepo ==
    [ head |-> "main", branches |-> {"main"}, tags |-> {}, merged |-> {}, ncommits |-> 0 ]

\* one executed command and whether it exited with 0
Cmd(name, ok) == [cmd |-> name, ok |-> ok]

\* what "git commit" can answer: exit status and the texts on its two streams
CommitOutcomes ==
    { [exit_code |-> 0,   stdout |-> {"1 file changed"},      stderr |-> {}],
      [exit_code |-> 1,   stdout |-> {"nothing to commit"},   stderr |-> {}],
      [exit_code |-> 1,   stdout |-> {},                      stderr |-> {"nothing to commit"}],
      [exit_code |-> 1,   stdout |-> {"no changes added to commit"}, stderr |-> {}],
      [exit_code |-> 128, stdout |-> {},                      stderr |-> {"fatal: not a git repository"}],
      [exit_code |-> -1,  stdout |-> {},                      stderr |-> {"launch failure"}] }

\* run_git_command's result dict for an exit status and the two streams
run_git_command(outcome) ==
    [ success   |-> (outcome.exit_code = 0),
      stdout    |-> outcome.stdout,
      stderr    |-> outcome.stderr,
      exit_code |-> outcome.exit_code ]

MaxCommits == 3

\* outcomes of the external calls of one coordinator operation; an outcome
\* the repository rules out (creating a branch that exists, tagging twice,
\* deleting the checked-out or an unmerged branch) is not drawn
GitEnvs ==
    [ checkout_base : BOOLEAN, checkout_b : BOOLEAN, tracker_raises : BOOLEAN,
      commit : CommitOutcomes, rev_parse : BOOLEAN, tag : BOOLEAN,
      merge : BOOLEAN, branch_d : BOOLEAN ]

\* the repository after "git checkout <base>"
AfterCheckout(rp, branch, ok) == IF ok THEN [rp EXCEPT !.head = branch] ELSE rp

\* mutant: the "nothing to commit" test is dropped
commit_phase_strict(gc, rp, task_id, env) ==
    LET git_res == run_git_command(env.commit)
        issued  == <<Cmd("add .", TRUE), Cmd("commit", git_res.success)>>
    IN
    IF git_res.success THEN
        [ result |-> AgentResult("success", [commit |-> "hash", phase |-> "phase"],
                                 "None", EmptyDict, "Committed phase"),
          gc     |-> [gc EXCEPT !.commits = Append(@, "hash")],
          repo   |-> [rp EXCEPT !.ncommits = @ + 1],
          cmds   |-> issued \o <<Cmd("rev-parse HEAD", env.rev_parse)>>,
          raised |-> FALSE ]
    ELSE
        [ result |-> AgentResult("fail", [git_error |-> git_res.stderr],
                                 "None", EmptyDict, "Commit failed"),
          gc |-> gc, repo |-> rp, cmds |-> issued, raised |-> FALSE ]

\* orchestrator_git_function(..., "create_branch")
create_branch(gc, rp, task_id, env) ==
    LET branch_name == BranchName(task_id)
        rp1    == AfterCheckout(rp, gc.base_branch, env.checkout_base)
        ok     == env.checkout_b
        issued == <<Cmd("checkout " \o gc.base_branch, env.checkout_base),
                    Cmd("pull origin main", TRUE),
                    Cmd("checkout -b " \o branch_name, ok)>>
    IN
    IF ok THEN
        LET gc2 == [gc EXCEPT !.current_branch = branch_name,
                              !.task_branches =
                                  DictMerge(@, [t \in {task_id} |-> branch_name])]
            rp2 == [rp1 EXCEPT !.head = branch_name,
                               !.branches = @ \cup {branch_name}]
        IN
        [ result |-> IF env.tracker_raises THEN NoResult
                     ELSE AgentResult("success", [branch |-> branch_name],
                                      "None", EmptyDict, "Created branch"),
          gc     |-> gc2,
          repo   |-> rp2,
          cmds   |-> issued \o <<Cmd("update-subtask created branch", ~env.tracker_raises)>>,
          raised |-> env.tracker_raises ]
    ELSE
        [ result |-> AgentResult("fail", [git_error |-> {"checkout -b failed"}],
                                 "None", EmptyDict, "Failed to create branch"),
          gc |-> gc, repo |-> rp1, cmds |-> issued, raised |-> FALSE ]

\* orchestrator_git_function(..., "commit_phase", phase=...)
commit_phase(gc, rp, task_id, env) ==
    LET git_res == run_git_command(env.commit)
        issued  == <<Cmd("add .", TRUE), Cmd("commit", git_res.success)>>
    IN
    IF git_res.success THEN
        \* commit_hash = run_git_command("rev-parse HEAD")["stdout"][:8]
        LET commit_hash == IF env.rev_parse THEN "hash" ELSE "" IN
        [ result |-> AgentResult("success", [commit |-> commit_hash, phase |-> "phase"],
                                 "None", EmptyDict, "Committed phase"),
          gc     |-> [gc EXCEPT !.commits = Append(@, commit_hash)],
          repo   |-> [rp EXCEPT !.ncommits = @ + 1],
          cmds   |-> issued \o <<Cmd("rev-parse HEAD", env.rev_parse)>>,
          raised |-> FALSE ]
    ELSE IF Has("nothing to commit", git_res.stdout) THEN
        [ result |-> AgentResult("success", [no_changes |-> "True"],
                                 "None", EmptyDict, "No changes to commit"),
          gc |-> gc, repo |-> rp, cmds |-> issued, raised |-> FALSE ]
    ELSE
        [ result |-> AgentResult("fail", [git_error |-> git_res.stderr],
                                 "None", EmptyDict, "Commit failed"),
          gc |-> gc, repo |-> rp, cmds |-> issued, raised |-> FALSE ]

\* orchestrator_git_function(..., "tag_completion")
tag_completion(gc, rp, task_id, env) ==
    LET tag_name == TagName(task_id)
        issued   == <<Cmd("tag -a " \o tag_name, env.tag)>>
    IN
    IF env.tag THEN
        [ result |-> AgentResult("success", [tag |-> tag_name],
                                 "None", EmptyDict, "Tagged completion"),
          gc |-> gc, repo |-> [rp EXCEPT !.tags = @ \cup {tag_name}],
          cmds |-> issued, raised |-> FALSE ]
    ELSE
        [ result |-> AgentResult("fail", [git_error |-> {"tag failed"}],
                                 "None", EmptyDict, "Tagging failed"),
          gc |-> gc, repo |-> rp, cmds |-> issued, raised |-> FALSE ]

\* mutant: the branch is cleaned up whatever the merge answered
merge_task_always_deletes(gc, rp, task_id, env) ==
    IF task_id \notin DOMAIN gc.task_branches THEN
        [ result |-> AgentResult("fail", [error |-> "No branch found for task"],
                                 "None", EmptyDict, "No branch found for task"),
          gc |-> gc, repo |-> rp, cmds |-> <<>>, raised |-> FALSE ]
    ELSE
        LET task_branch == gc.task_branches[task_id]
            rp1 == AfterCheckout(rp, gc.base_branch, env.checkout_base)
        IN
        [ result |-> AgentResult(IF env.merge THEN "success" ELSE "fail",
                                 [merged |-> task_branch],
                                 "None", EmptyDict, "Merged and cleaned up"),
          gc     |-> [gc EXCEPT !.current_branch = gc.base_branch],
          repo   |-> [rp1 EXCEPT !.branches = @ \ {task_branch}],
          cmds   |-> <<Cmd("checkout " \o gc.base_branch, env.checkout_base),
                       Cmd("merge " \o task_branch, env.merge),
                       Cmd("branch -d " \o task_branch, TRUE)>>,
          raised |-> FALSE ]

\* mutant: a missing branch is skipped over instead of failing
merge_task_no_lookup(gc, rp, task_id, env) ==
    LET task_branch == BranchName(task_id)
        rp1 == AfterCheckout(rp, gc.base_branch, env.checkout_base)
    IN
    [ result |-> AgentResult(IF env.merge THEN "success" ELSE "fail",
                             [merged |-> task_branch],
                             "None", EmptyDict, "Merged and cleaned up"),
      gc     |-> IF env.merge THEN [gc EXCEPT !.current_branch = gc.base_branch] ELSE gc,
      repo   |-> rp1,
      cmds   |-> <<Cmd("checkout " \o gc.base_branch, env.checkout_base),
                   Cmd("merge " \o task_branch, env.merge)>>,
      raised |-> FALSE ]

\* orchestrator_git_function(..., "merge_task")
merge_task(gc, rp, task_id, env) ==
    IF task_id \notin DOMAIN gc.task_branches THEN
        [ result |-> AgentResult("fail", [error |-> "No branch found for task"],
                                 "None", EmptyDict, "No branch found for task"),
          gc |-> gc, repo |-> rp, cmds |-> <<>>, raised |-> FALSE ]
    ELSE
        LET task_branch == gc.task_branches[task_id]
            rp1    == AfterCheckout(rp, gc.base_branch, env.checkout_base)
            issued == <<Cmd("checkout " \o gc.base_branch, env.checkout_base),
                        Cmd("merge " \o task_branch, env.merge)>>
        IN
        IF env.merge THEN
            LET rp2 == [rp1 EXCEPT !.merged = @ \cup {task_branch}]
                rp3 == IF env.branch_d
                       THEN [rp2 EXCEPT !.branches = @ \ {task_branch}]
                       ELSE rp2
            IN
            [ result |-> AgentResult("success", [merged |-> task_branch],
                                     "None", EmptyDict, "Merged and cleaned up"),
              gc     |-> [gc EXCEPT !.current_branch = gc.base_branch],
              repo   |-> rp3,
              cmds   |-> issued \o <<Cmd("branch -d " \o task_branch, env.branch_d)>>,
              raised |-> FALSE ]
        ELSE
            [ result |-> AgentResult("fail", [git_error |-> {"merge failed"}],
                                     "None", EmptyDict, "Merge failed"),
              gc |-> gc, repo |-> rp1, cmds |-> issued, raised |-> FALSE ]

GitActions == {"create_branch", "commit_phase", "tag_completion", "merge_task"}

\* orchestrator_git_function: dispatch on the action name
orchestrator_git_function(gc, rp, task_id, action, env) ==
    CASE action = "create_branch"  -> create_branch(gc, rp, task_id, env)
      [] action = "commit_phase"   -> commit_phase(gc, rp, task_id, env)
      [] action = "tag_completion" -> tag_completion(gc, rp, task_id, env)
      [] action = "merge_task"     -> merge_task(gc, rp, task_id, env)
      [] OTHER ->
            [ result |-> AgentResult("fail", [error |-> "Unknown git action"],
                                     "None", EmptyDict, "Unknown git action"),
              gc |-> gc, repo |-> rp, cmds |-> <<>>, raised |-> FALSE ]

\* the outcome every call of the operation not made is held at
QuietEnv ==
    [ checkout_base |-> TRUE, checkout_b |-> TRUE, tracker_raises |-> FALSE,
      commit |-> [exit_code |-> 0, stdout |-> {"1 file changed"}, stderr |-> {}],
      rev_parse |-> TRUE, tag |-> TRUE, merge |-> TRUE, branch_d |-> TRUE ]

\* the outcomes the repository allows for this operation; outcomes of calls
\* the operation does not make are held at QuietEnv's
GitEnvFits(gc, rp, task_id, action, env) ==
    LET fixed(fields) == \A f \in DOMAIN env : f \notin fields => env[f] = QuietEnv[f]
        head1 == IF env.checkout_base THEN gc.base_branch ELSE rp.head
    IN
    CASE action = "create_branch" ->
            /\ fixed({"checkout_base", "checkout_b", "tracker_raises"})
            /\ env.checkout_b => BranchName(task_id) \notin rp.branches
            /\ env.tracker_raises => env.checkout_b
      [] action = "commit_phase" ->
            /\ fixed({"commit", "rev_parse"})
            /\ env.commit.exit_code = 0 => rp.ncommits < MaxCommits
            /\ ~env.rev_parse => env.commit.exit_code = 0
      [] action = "tag_completion" ->
            /\ fixed({"tag"})
            /\ env.tag => TagName(task_id) \notin rp.tags
      [] action = "merge_task" ->
            IF task_id \notin DOMAIN gc.task_branches THEN env = QuietEnv
            ELSE
                /\ fixed({"checkout_base", "merge", "branch_d"})
                /\ env.merge => gc.task_branches[task_id] \in rp.branches
                /\ ~env.merge => env.branch_d
                /\ (env.merge /\ env.branch_d) => gc.task_branches[task_id] # head1
      [] OTHER -> env = QuietEnv

(***************************************************************************)
(* validators.py.  The status glyphs of the tracker are written            *)
(* "(check) done", "(circle) pending" and "(arrow) in-progress".           *)
(***************************************************************************)

\* ValidationResult(...) after __post_init__
ValidationResult(valid, errors, warnings, blocking_tasks, conflicting_branches) ==
    [ valid |-> valid, errors |-> errors, warnings |-> warnings,
      blocking_tasks |-> blocking_tasks,
      conflicting_branches |-> conflicting_branches ]

NoValidation == [valid |-> "none"]

\* a list with x appended when cond holds
AppendIf(seq, cond, x) == IF cond THEN Append(seq, x) ELSE seq

\* the elements of a finite set of strings as a list, in one fixed order
RECURSIVE ListOf(_)
ListOf(set) ==
    IF set = {} THEN <<>>
    ELSE LET x == CHOOSE y \in set : TRUE IN <<x>> \o ListOf(set \ {x})

\* the task id inside a branch name "task-<id>", for names that start with "task-"
BranchIds == {"1", "2.1", "2.2"}

StartsWithTask(branch) == \E id \in BranchIds : branch = BranchName(id)

\* branch.replace('task-', '')
BranchTaskId(branch) == CHOOSE id \in BranchIds : branch = BranchName(id)

\* a git gateway result whose stdout is a branch name or a set of branch lines
GitAnswer(success, out) == [success |-> success, out |-> out]

\* mutant: the early return forgets to mark the result invalid
validate_git_state_early_valid(task_id, e) ==
    IF ~e.current.success
    THEN ValidationResult(TRUE, <<"Failed to get current git branch">>, <<>>, <<>>, <<>>)
    ELSE ValidationResult(TRUE, <<>>, <<>>, <<>>, <<>>)

\* mutant: the verdict ignores the accumulated errors
validate_all_preconditions_always_valid(task_id, e) ==
    ValidationResult(TRUE,
        AppendIf(<<>>, e.show.raises, "Failed to check task status"),
        <<>>, <<>>, <<>>)

\* validate_task_dependencies; e.show / e.deps are the answers to "show <task>"
\* and "validate-dependencies", e.show_deps the ids on the task's dependency
\* lines, e.dep_show the answer to "show <dep>" for each of them
validate_task_dependencies(task_id, e) ==
    LET dependencies == ListOf(e.show_deps)
        dep_raises == \E d \in e.show_deps : e.dep_show[d].raises
        status_errors ==
            IF Has("(check) done", e.show.text) THEN <<>>
            ELSE IF ~Has("(circle) pending", e.show.text)
                    /\ ~Has("(arrow) in-progress", e.show.text)
                 THEN <<"Task " \o task_id \o " has invalid status">>
                 ELSE <<>>
        warnings ==
            IF Has("(check) done", e.show.text)
            THEN <<"Task " \o task_id \o " is already marked as done">>
            ELSE <<>>
        DepError(d) ==
            IF Has("(circle) pending", e.dep_show[d].text)
            THEN "Dependency " \o d \o " is still pending"
            ELSE IF Has("(arrow) in-progress", e.dep_show[d].text)
                 THEN "Dependency " \o d \o " is still in progress"
                 ELSE "Dependency " \o d \o " has unknown status"
        blocking_tasks ==
            SelectSeq(dependencies, LAMBDA d : ~Has("(check) done", e.dep_show[d].text))
        dep_errors == [i \in DOMAIN blocking_tasks |-> DepError(blocking_tasks[i])]
        errors ==
            AppendIf(status_errors \o dep_errors,
                     Has("invalid dependencies", e.deps.text)
                         \/ Has("dependency issues", e.deps.text),
                     "Task Master reports dependency issues")
    IN
    IF e.show.raises \/ e.deps.raises \/ dep_raises THEN
        ValidationResult(FALSE, <<"Failed to validate dependencies">>, <<>>, <<>>, <<>>)
    ELSE
        ValidationResult(Len(errors) = 0, errors, warnings, blocking_tasks, <<>>)

\* _is_blocking_branch: the branch's task is among the current task's
\* dependencies; False when the tracker call raises
is_blocking_branch(branch_task_id, e) ==
    IF e.show.raises THEN FALSE ELSE branch_task_id \in e.show_deps

\* validate_git_state; e.current, e.branches, e.status, e.unmerged are the
\* answers to "branch --show-current", "branch", "status --porcelain" and
\* "branch --no-merged main"
validate_git_state(task_id, e) ==
    IF ~e.current.success THEN
        ValidationResult(FALSE, <<"Failed to get current git branch">>, <<>>, <<>>, <<>>)
    ELSE
        LET current_branch == e.current.out
            on_task  == current_branch \notin {"main", "master"} /\ StartsWithTask(current_branch)
            on_other == current_branch \notin {"main", "master"} /\ ~StartsWithTask(current_branch)
            task_branches ==
                IF e.branches.success
                THEN SelectSeq(ListOf(e.branches.out), StartsWithTask)
                ELSE <<>>
            Conflicts(b) ==
                BranchTaskId(b) = task_id \/ is_blocking_branch(BranchTaskId(b), e)
            conflicting_branches == SelectSeq(task_branches, Conflicts)
            branch_errors ==
                [i \in DOMAIN conflicting_branches |->
                    IF BranchTaskId(conflicting_branches[i]) = task_id
                    THEN "Branch 'task-" \o task_id \o "' already exists"
                    ELSE "Blocking task branch exists: " \o conflicting_branches[i]]
            errors ==
                AppendIf(<<>>, on_task, "Already on task branch: " \o current_branch)
                \o branch_errors
            unmerged ==
                IF e.unmerged.success
                THEN SelectSeq(ListOf(e.unmerged.out), StartsWithTask)
                ELSE <<>>
            warnings ==
                AppendIf(AppendIf(<<>>, on_other, "Not on main branch"),
                         e.status.success /\ e.status.out,
                         "Working directory has uncommitted changes")
                \o [i \in DOMAIN unmerged |-> "Unmerged task branch exists: " \o unmerged[i]]
        IN
        ValidationResult(Len(errors) = 0, errors, warnings, <<>>, conflicting_branches)

\* float(id.replace('.', ''))
IdNumber(id) ==
    CASE id = "1" -> 1 [] id = "2.1" -> 21 [] id = "2.2" -> 22 [] id = "3" -> 3

\* _is_prerequisite_task
is_prerequisite_task(potential_prereq, current_task) ==
    IdNumber(potential_prereq) < IdNumber(current_task)

\* validate_task_order; e.list is the answer to "list", its text already cut
\* into the table rows _parse_task_list keeps: [id, status, dependencies]
validate_task_order(task_id, e) ==
    IF e.list.raises THEN
        ValidationResult(FALSE, <<"Failed to validate task order">>, <<>>, <<>>, <<>>)
    ELSE
        LET task_info == e.list.text
            found == \E i \in DOMAIN task_info : task_info[i].id = task_id
        IN
        IF ~found THEN
            ValidationResult(FALSE, <<"Task " \o task_id \o " not found in task list">>,
                             <<>>, <<>>, <<>>)
        ELSE
            LET current_task ==
                    task_info[CHOOSE i \in DOMAIN task_info :
                                /\ task_info[i].id = task_id
                                /\ \A j \in 1..(i - 1) : task_info[j].id # task_id]
                pending_tasks == SelectSeq(task_info, LAMBDA t : t.status = "pending")
                skipped ==
                    SelectSeq(pending_tasks, LAMBDA t : is_prerequisite_task(t.id, task_id))
                warnings ==
                    [i \in DOMAIN skipped |-> "Skipping earlier task " \o skipped[i].id]
                NotDone(dep_id) ==
                    \E i \in DOMAIN task_info :
                        /\ task_info[i].id = dep_id
                        /\ \A j \in 1..(i - 1) : task_info[j].id # dep_id
                        /\ task_info[i].status # "done"
                open_deps == SelectSeq(current_task.dependencies, NotDone)
                errors ==
                    [i \in DOMAIN open_deps |->
                        "Cannot start " \o task_id \o ": dependency " \o open_deps[i]
                            \o " not complete"]
            IN
            ValidationResult(Len(errors) = 0, errors, warnings, <<>>, <<>>)

\* validate_all_preconditions; e.show, e.deps, e.next are the answers to
\* "show <task>", "validate-dependencies" and "next" (e.next.text: the task
\* ids that occur in it), e.branches and e.current those of "git branch" and
\* "git branch --show-current"
\* mutant: the checks after the task-status check are not run
validate_all_preconditions_stops_early(task_id, e) ==
    IF e.show.raises
    THEN ValidationResult(FALSE, <<"Failed to check task status">>, <<>>, <<>>, <<>>)
    ELSE ValidationResult(TRUE, <<>>, <<>>, <<>>, <<>>)

validate_all_preconditions(task_id, e) ==
    LET task_errors ==
            IF e.show.raises THEN <<"Failed to check task status">>
            ELSE IF Has("not found", e.show.text) \/ Has("error", e.show.text)
                 THEN <<"Task " \o task_id \o " not found">>
            ELSE IF Has("(check) done", e.show.text)
                 THEN <<"Task " \o task_id \o " is already completed">>
            ELSE IF Has("blocked", e.show.text)
                 THEN <<"Task " \o task_id \o " is blocked">>
            ELSE <<>>
        deps_errors ==
            IF ~e.deps.raises
               /\ ~Has("no invalid dependencies found", e.deps.text)
               /\ ~Has("all dependencies are valid", e.deps.text)
            THEN <<"Task Master reports dependency issues">>
            ELSE <<>>
        deps_warnings ==
            IF e.deps.raises THEN <<"Could not validate dependencies">> ELSE <<>>
        conflicting_branches ==
            IF e.branches.success /\ BranchName(task_id) \in e.branches.out
            THEN <<BranchName(task_id)>>
            ELSE <<>>
        branch_errors ==
            [i \in DOMAIN conflicting_branches |->
                "Branch 'task-" \o task_id \o "' already exists"]
        git_warnings ==
            IF e.current.success /\ StartsWithTask(e.current.out)
               /\ e.current.out # BranchName(task_id)
            THEN <<"Currently on task branch: " \o e.current.out>>
            ELSE <<>>
        next_warnings ==
            IF e.next.raises THEN <<"Could not check next task">>
            ELSE IF task_id \notin e.next.text
                 THEN <<"Task " \o task_id \o " may not be the next recommended task">>
            ELSE <<>>
        errors == task_errors \o deps_errors \o branch_errors
        warnings == deps_warnings \o git_warnings \o next_warnings
    IN
    ValidationResult(Len(errors) = 0, errors, warnings, <<>>, conflicting_branches)


(***************************************************************************)
(* execute_functional_workflow                                             *)
(***************************************************************************)

\* mutant: the loop bound is off by one
max_iterations_off == 20 + 1

max_iterations == 20

\* if result.context_update: context = context.update(**result.context_update)
ApplyUpdate(ctx, context_update) ==
    IF DOMAIN context_update # {} THEN update(ctx, context_update) ELSE ctx

\* the function the driver continues with after a Retry
RetryFunction(current, phase) ==
    IF phase = "tdd_implementation" THEN "tester"
    ELSE IF phase \in {"planning_with_research", "research_after_orchestration"}
         THEN "planner"
    ELSE current

EscalationTargets == {"planner", "researcher", "orchestrator"}

\* mutant: a Fail result is treated like a Retry
DispatchKeepsGoing(out) ==
    IF out.kind = "raise" THEN
        /\ pc' = "raised" /\ context' = out.ctx
        /\ UNCHANGED <<current_function, returned>>
    ELSE IF out.result.action = "success" THEN
        /\ pc' = "done" /\ returned' = out.result /\ context' = out.ctx
        /\ UNCHANGED current_function
    ELSE IF out.result.action = "escalate" THEN
        /\ pc' = "loop" /\ current_function' = out.result.escalate_to
        /\ context' = ApplyUpdate(out.ctx, out.result.context_update)
        /\ UNCHANGED returned
    ELSE
        /\ pc' = "loop"
        /\ context' = ApplyUpdate(out.ctx, out.result.context_update)
        /\ current_function' = RetryFunction(current_function, context'.current_phase)
        /\ UNCHANGED returned

\* the loop body after `result = current_function(context)`
Dispatch(out) ==
    IF out.kind = "raise" THEN
        \* the exception leaves execute_functional_workflow
        /\ pc' = "raised" /\ context' = out.ctx
        /\ UNCHANGED <<current_function, returned>>
    ELSE IF out.result.action \in {"success", "fail"} THEN
        /\ pc' = "done" /\ returned' = out.result /\ context' = out.ctx
        /\ UNCHANGED current_function
    ELSE IF out.result.action = "escalate" THEN
        IF out.result.escalate_to \in EscalationTargets THEN
            /\ pc' = "loop" /\ current_function' = out.result.escalate_to
            /\ context' = ApplyUpdate(out.ctx, out.result.context_update)
            /\ UNCHANGED returned
        ELSE
            /\ pc' = "done" /\ returned' = out.result /\ context' = out.ctx
            /\ UNCHANGED current_function
    ELSE
        /\ pc' = "loop"
        /\ context' = ApplyUpdate(out.ctx, out.result.context_update)
        /\ current_function' = RetryFunction(current_function, context'.current_phase)
        /\ UNCHANGED returned

\* one iteration of the while loop with the given role as current_function
Step(role) ==
    /\ pc = "loop"
    /\ iteration < max_iterations
    /\ current_function = role
    /\ \E env \in EnvsOf(role) :
        /\ EnvFits(role, context, env)
        /\ LET out == Invoke(role, context, env) IN
            /\ iteration' = iteration + 1
            /\ call' = [role |-> role, arg |-> context, env |-> env, after |-> out.ctx]
            /\ cmds' = out.cmds
            /\ result' = out.result
            /\ Dispatch(out)
    /\ UNCHANGED <<gitVars, sessVars, valVars>>

TesterStep == Step("tester")
PlannerStep == Step("planner")
ResearcherStep == Step("researcher")
OrchestratorStep == Step("orchestrator")

\* the return after the while loop
MaxIterationsReached ==
    /\ pc = "loop"
    /\ ~(iteration < max_iterations)
    /\ pc' = "done"
    /\ returned' = AgentResult("fail",
                               [max_iterations_reached |-> "True", history |-> context.history],
                               "None", EmptyDict, "Workflow exceeded maximum iterations")
    /\ UNCHANGED <<current_function, iteration, context, result, call, cmds>>
    /\ UNCHANGED <<gitVars, sessVars, valVars>>

NoCall == [role |-> "none"]

\* no session is running
NoSession ==
    /\ session_result = [status |-> "none"]
    /\ task_count = 0
    /\ next_task = "None"
    /\ tester_result = NoResult
    /\ attempt_log = <<>>
    /\ asked = 0

\* no coordinator operation has run on a fresh GitContext and clone
FreshGit ==
    /\ git_context = NewGitContext
    /\ repo = NewRepo
    /\ git_call = NoCall
    /\ git_result = NoResult
    /\ git_cmds = <<>>

\* no validator has been called
NoValidator ==
    /\ vcall = NoCall
    /\ vresult = NoValidation

\* no workflow is running
NoWorkflow ==
    /\ current_function = "none"
    /\ iteration = 0
    /\ context = NewContext("2.1", "start")
    /\ result = NoResult
    /\ returned = NoResult
    /\ call = NoCall
    /\ cmds = <<>>

Init ==
    /\ pc = "loop"
    /\ current_function = "tester"
    /\ iteration = 0
    /\ \E task_id \in Tasks : context = NewContext(task_id, "start")
    /\ result = NoResult
    /\ returned = NoResult
    /\ call = NoCall
    /\ cmds = <<>>
    /\ FreshGit /\ NoSession /\ NoValidator

Next ==
    \/ TesterStep
    \/ PlannerStep
    \/ ResearcherStep
    \/ OrchestratorStep
    \/ MaxIterationsReached

Spec == Init /\ [][Next]_vars

(***************************************************************************)
(* The role functions called directly, in any order, on one context object *)
(***************************************************************************)

MaxHistory == 4

\* a caller invokes one role function on the context object it holds
CallRole(role) ==
    /\ pc = "roles"
    /\ Len(context.history) < MaxHistory
    /\ \E env \in EnvsOf(role) :
        /\ EnvFits(role, context, env)
        /\ LET out == Invoke(role, context, env) IN
            /\ call' = [role |-> role, arg |-> context, env |-> env, after |-> out.ctx]
            /\ cmds' = out.cmds
            /\ result' = out.result
            /\ context' = out.ctx
    /\ pc' = "called"
    /\ UNCHANGED <<current_function, iteration, returned>>
    /\ UNCHANGED <<gitVars, sessVars, valVars>>

\* the caller drops the result and keeps the context object
DropResult ==
    /\ pc = "called"
    /\ pc' = "roles"
    /\ call' = NoCall
    /\ result' = NoResult
    /\ cmds' = <<>>
    /\ UNCHANGED <<current_function, iteration, returned, context>>
    /\ UNCHANGED <<gitVars, sessVars, valVars>>

\* the driver's handling of an Escalate or Retry result: the context takes
\* the result's context_update
ApplyResultUpdate ==
    /\ pc = "called"
    /\ result.action \in {"escalate", "retry"}
    /\ pc' = "roles"
    /\ context' = ApplyUpdate(context, result.context_update)
    /\ call' = NoCall
    /\ result' = NoResult
    /\ cmds' = <<>>
    /\ UNCHANGED <<current_function, iteration, returned>>
    /\ UNCHANGED <<gitVars, sessVars, valVars>>

CallTester == CallRole("tester")
CallPlanner == CallRole("planner")
CallResearcher == CallRole("researcher")
CallOrchestrator == CallRole("orchestrator")

InitRoles ==
    /\ pc = "roles"
    /\ NoWorkflow /\ FreshGit /\ NoSession /\ NoValidator

NextRoles ==
    \/ CallTester \/ CallPlanner \/ CallResearcher \/ CallOrchestrator
    \/ DropResult \/ ApplyResultUpdate

SpecRoles == InitRoles /\ [][NextRoles]_vars

(***************************************************************************)
(* The coordinator's operations called directly, in any order, on one      *)
(* GitContext and one repository                                           *)
(***************************************************************************)

\* a caller runs one coordinator operation for one task
GitOp(action) ==
    /\ pc = "git"
    /\ \E task_id \in Tasks, env \in GitEnvs :
        /\ GitEnvFits(git_context, repo, task_id, action, env)
        /\ LET out == orchestrator_git_function(git_context, repo, task_id, action, env) IN
            /\ git_call' = [action |-> action, task_id |-> task_id, env |-> env,
                            gc_before |-> git_context, repo_before |-> repo,
                            raised |-> out.raised]
            /\ git_result' = out.result
            /\ git_cmds' = out.cmds
            /\ git_context' = out.gc
            /\ repo' = out.repo
    /\ pc' = "git_called"
    /\ UNCHANGED <<current_function, iteration, context, result, returned, call, cmds>>
    /\ UNCHANGED <<sessVars, valVars>>

CreateBranch == GitOp("create_branch")
CommitPhase == GitOp("commit_phase")
TagCompletion == GitOp("tag_completion")
MergeTask == GitOp("merge_task")

\* the caller drops the result and keeps the GitContext
DropGitResult ==
    /\ pc = "git_called"
    /\ pc' = "git"
    /\ git_call' = NoCall
    /\ git_result' = NoResult
    /\ git_cmds' = <<>>
    /\ UNCHANGED <<git_context, repo>>
    /\ UNCHANGED <<current_function, iteration, context, result, returned, call, cmds>>
    /\ UNCHANGED <<sessVars, valVars>>

InitGit ==
    /\ pc = "git"
    /\ NoWorkflow /\ FreshGit /\ NoSession /\ NoValidator

NextGit == CreateBranch \/ CommitPhase \/ TagCompletion \/ MergeTask \/ DropGitResult

SpecGit == InitGit /\ [][NextGit]_vars

(***************************************************************************)
(* enhanced_tester_function and run_development_session, one action per    *)
(* step of the task being processed                                        *)
(***************************************************************************)

\* mutant: the loop lets one more task through
max_tasks_off == 10 + 1

max_tasks == 10

\* the session report at the start of run_development_session
NewSessionResult ==
    [ status |-> "completed", tasks_completed |-> <<>>, tasks_blocked |-> <<>>,
      error |-> "None" ]

\* the tracker names the tasks in ascending order and may name one again
TrackerAnswers(last) ==
    {"None"} \cup { t \in Tasks : last = "None" \/ IdNumber(last) <= IdNumber(t) }

\* answers the tracker and git give to one validate_all_preconditions call
\* of the session: "git branch" and "git branch --show-current" report the
\* repository, "next" names the task in hand
SessionValEnvs(task_id) ==
    { [ show |-> sh, deps |-> dp,
        branches |-> GitAnswer(TRUE, repo.branches),
        current |-> GitAnswer(TRUE, repo.head),
        next |-> Call(FALSE, {task_id}) ]
      : sh \in { Call(TRUE, {}), Call(FALSE, {"(circle) pending"}),
                 Call(FALSE, {"(check) done"}) },
        dp \in { Call(FALSE, {"all dependencies are valid"}),
                 Call(FALSE, {"dependency issues"}) } }

\* answers git and the tracker give to the coordinator during a session:
\* every command may fail except "git rev-parse HEAD" after a commit
SessionGitEnvs ==
    { env \in GitEnvs : env.rev_parse }

SessionIdleWf ==
    UNCHANGED <<current_function, iteration, context, result, returned, call, cmds>>

\* the session leaves the loop: break, or the loop condition fails
EndSession(report) ==
    /\ pc' = "end"
    /\ session_result' = report

\* mutant: the failed task is recorded and the session goes on to the next
Blocked_continues(res) ==
    /\ tester_result' = res
    /\ pc' = "top"
    /\ session_result' = [session_result EXCEPT
                             !.tasks_blocked = Append(@, [task_id |-> next_task,
                                                          reason |-> res.message,
                                                          data |-> res.data])]

\* enhanced_tester_function returned Fail: the task is recorded as blocked
\* and the session stops
Blocked(res) ==
    /\ tester_result' = res
    /\ EndSession([session_result EXCEPT
                      !.tasks_blocked = Append(@, [task_id |-> next_task,
                                                   reason |-> res.message,
                                                   data |-> res.data]),
                      !.status = "blocked"])

\* an exception reached run_development_session's handler
SessionError ==
    /\ tester_result' = NoResult
    /\ EndSession([session_result EXCEPT !.status = "error", !.error = "exception text"])

\* while task_count < max_tasks: next_task = get_next_task(...)
GetNextTask ==
    /\ pc = "top"
    /\ task_count < max_tasks
    /\ asked' = asked + 1
    /\ \E answer \in TrackerAnswers(next_task) :
        IF answer = "None" THEN
            /\ EndSession([session_result EXCEPT !.status = "no_more_tasks"])
            /\ UNCHANGED <<task_count, next_task, tester_result, attempt_log>>
        ELSE
            /\ next_task' = answer
            /\ task_count' = task_count + 1
            /\ tester_result' = NoResult
            /\ attempt_log' = <<>>
            /\ pc' = "validate"
            /\ UNCHANGED session_result
    /\ UNCHANGED <<gitVars, valVars>>
    /\ SessionIdleWf

\* the loop condition fails after max_tasks tasks
TaskCeilingReached ==
    /\ pc = "top"
    /\ ~(task_count < max_tasks)
    /\ pc' = "end"
    /\ UNCHANGED <<gitVars, sessVars, valVars>>
    /\ SessionIdleWf

\* mutant: the verdict is computed but not looked at
Validate_ignores_verdict ==
    /\ pc = "validate"
    /\ \E e \in SessionValEnvs(next_task) :
        /\ vresult' = validate_all_preconditions(next_task, e)
        /\ vcall' = [validator |-> "validate_all_preconditions", task_id |-> next_task]
        /\ attempt_log' = Append(attempt_log, "validate")
        /\ pc' = "branch"
    /\ UNCHANGED <<session_result, tester_result, task_count, next_task, asked>>
    /\ UNCHANGED gitVars
    /\ SessionIdleWf

\* enhanced_tester_function: validate_all_preconditions and the verdict test
Validate ==
    /\ pc = "validate"
    /\ \E e \in SessionValEnvs(next_task) :
        LET validation_result == validate_all_preconditions(next_task, e) IN
        /\ vresult' = validation_result
        /\ vcall' = [validator |-> "validate_all_preconditions", task_id |-> next_task]
        /\ attempt_log' = Append(attempt_log, "validate")
        /\ IF ~validation_result.valid THEN
               Blocked(AgentResult("fail",
                           [validation_errors |-> validation_result.errors,
                            blocking_tasks |-> validation_result.blocking_tasks,
                            conflicting_branches |-> validation_result.conflicting_branches],
                           "None", EmptyDict, "Task failed validation"))
           ELSE
               /\ pc' = "branch"
               /\ UNCHANGED <<session_result, tester_result>>
    /\ UNCHANGED <<task_count, next_task, asked>>
    /\ UNCHANGED gitVars
    /\ SessionIdleWf

\* one coordinator operation run by the session for the task in hand
SessionGitOp(action, env) ==
    LET out == orchestrator_git_function(git_context, repo, next_task, action, env) IN
    /\ git_call' = [action |-> action, task_id |-> next_task,
                    gc_before |-> git_context, repo_before |-> repo,
                    raised |-> out.raised]
    /\ git_result' = out.result
    /\ git_cmds' = out.cmds
    /\ git_context' = out.gc
    /\ repo' = out.repo

\* if context.task_id not in git_context.task_branches: create_branch
EnsureBranch ==
    /\ pc = "branch"
    /\ IF next_task \in DOMAIN git_context.task_branches THEN
           /\ pc' = "red"
           /\ UNCHANGED <<gitVars, sessVars>>
       ELSE
           \E env \in SessionGitEnvs :
               /\ GitEnvFits(git_context, repo, next_task, "create_branch", env)
               /\ SessionGitOp("create_branch", env)
               /\ attempt_log' = Append(attempt_log, "create_branch")
               /\ IF git_call'.raised THEN SessionError
                  ELSE IF git_result'.action # "success" THEN Blocked(git_result')
                  ELSE /\ pc' = "red"
                       /\ UNCHANGED <<session_result, tester_result>>
               /\ UNCHANGED <<task_count, next_task, asked>>
    /\ UNCHANGED valVars
    /\ SessionIdleWf

\* orchestrator_git_function(..., "commit_phase", phase=...); the result is
\* not looked at
PhaseCommit(phase, next_pc) ==
    /\ pc = phase
    /\ \E env \in SessionGitEnvs :
        /\ GitEnvFits(git_context, repo, next_task, "commit_phase", env)
        /\ SessionGitOp("commit_phase", env)
        /\ attempt_log' = Append(attempt_log, "commit " \o phase)
    /\ pc' = next_pc
    /\ UNCHANGED <<session_result, task_count, next_task, tester_result, asked>>
    /\ UNCHANGED valVars
    /\ SessionIdleWf

CommitRed == PhaseCommit("red", "green")
CommitGreen == PhaseCommit("green", "refactor")
CommitRefactor == PhaseCommit("refactor", "tag")

\* tag_result = orchestrator_git_function(..., "tag_completion"); the result
\* is not looked at
TagStep ==
    /\ pc = "tag"
    /\ \E env \in SessionGitEnvs :
        /\ GitEnvFits(git_context, repo, next_task, "tag_completion", env)
        /\ SessionGitOp("tag_completion", env)
        /\ attempt_log' = Append(attempt_log, "tag_completion")
    /\ pc' = "mark_done"
    /\ UNCHANGED <<session_result, task_count, next_task, tester_result, asked>>
    /\ UNCHANGED valVars
    /\ SessionIdleWf

\* run_taskmaster(set-status done), the tester's Success, and the session's
\* tasks_completed.append; an exception of the tracker call becomes Fail
MarkDone ==
    /\ pc = "mark_done"
    /\ \E raises \in BOOLEAN :
        /\ attempt_log' = Append(attempt_log, "mark_done")
        /\ IF raises THEN
               Blocked(AgentResult("fail", [error |-> "exception text"],
                                   "None", EmptyDict, "Enhanced tester failed"))
           ELSE
               /\ tester_result' = AgentResult("success",
                                       [tdd_complete |-> "True", git_managed |-> "True"],
                                       "None", EmptyDict,
                                       "TDD cycle completed with git management")
               /\ session_result' = [session_result EXCEPT
                                        !.tasks_completed = Append(@, next_task)]
               /\ pc' = "merge"
    /\ UNCHANGED <<task_count, next_task, asked>>
    /\ UNCHANGED <<gitVars, valVars>>
    /\ SessionIdleWf

\* merge_result = orchestrator_git_function(..., "merge_task"); only printed
MergeStep ==
    /\ pc = "merge"
    /\ \E env \in SessionGitEnvs :
        /\ GitEnvFits(git_context, repo, next_task, "merge_task", env)
        /\ SessionGitOp("merge_task", env)
        /\ attempt_log' = Append(attempt_log, "merge_task")
    /\ pc' = "top"
    /\ UNCHANGED <<session_result, task_count, next_task, tester_result, asked>>
    /\ UNCHANGED valVars
    /\ SessionIdleWf

InitSession ==
    /\ pc = "top"
    /\ NoWorkflow /\ FreshGit /\ NoValidator
    /\ session_result = NewSessionResult
    /\ task_count = 0
    /\ next_task = "None"
    /\ tester_result = NoResult
    /\ attempt_log = <<>>
    /\ asked = 0

NextSession ==
    \/ GetNextTask
    \/ TaskCeilingReached
    \/ Validate
    \/ EnsureBranch
    \/ CommitRed
    \/ CommitGreen
    \/ CommitRefactor
    \/ TagStep
    \/ MarkDone
    \/ MergeStep

SpecSession == InitSession /\ [][NextSession]_vars

\* every external call returns, so the session's next step is always taken
SpecSessionFair == SpecSession /\ WF_vars(NextSession)

(***************************************************************************)
(* The validators called directly, each on answers drawn for its external  *)
(* calls                                                                   *)
(***************************************************************************)

\* what "show <id>" can answer
ShowAnswers ==
    {Call(TRUE, {})} \cup
    { Call(FALSE, text) : text \in { {}, {"(check) done"}, {"(circle) pending"},
                                     {"(arrow) in-progress"}, {"blocked"},
                                     {"not found"}, {"error: command failed"} } }

\* what "validate-dependencies" can answer
DepsAnswers ==
    {Call(TRUE, {})} \cup
    { Call(FALSE, text) : text \in { {"no invalid dependencies found"},
                                     {"all dependencies are valid"},
                                     {"invalid dependencies"},
                                     {"dependency issues"}, {} } }

\* ids that can stand on a task's dependency lines
DepIds == {"1", "2.2"}

\* what "show <dep>" can answer for the dependencies asked about
DepShowAnswers(deps) ==
    { f \in [DepIds -> { Call(TRUE, {}), Call(FALSE, {}), Call(FALSE, {"(check) done"}),
                         Call(FALSE, {"(circle) pending"}),
                         Call(FALSE, {"(arrow) in-progress"}) }] :
        \A d \in DepIds \ deps : f[d] = Call(FALSE, {}) }

\* what "git branch --show-current" can answer
CurrentAnswers ==
    {GitAnswer(FALSE, "")} \cup
    { GitAnswer(TRUE, b) : b \in {"main", "master", "feature", "task-1", "task-2.1"} }

\* what "git branch" can answer
BranchesAnswers ==
    {GitAnswer(FALSE, {})} \cup
    { GitAnswer(TRUE, {"main"} \cup bs) : bs \in SUBSET {"task-1", "task-2.1"} }

\* the most rows a task list holds
MaxRows == 2

TaskRows ==
    [ id : {"1", "2.1"}, status : {"done", "pending", "in-progress"},
      dependencies : {<<>>, <<"1">>} ]

\* what "list" can answer, as the rows _parse_task_list keeps
ListAnswers ==
    {Call(TRUE, <<>>)} \cup
    { Call(FALSE, rows) : rows \in UNION { [1..n -> TaskRows] : n \in 0..MaxRows } }

ValidatorCall(validator, task_id, e, res) ==
    /\ pc = "validators"
    /\ pc' = "validated"
    /\ vcall' = [validator |-> validator, task_id |-> task_id, e |-> e]
    /\ vresult' = res
    /\ UNCHANGED <<current_function, iteration, context, result, returned, call, cmds>>
    /\ UNCHANGED <<gitVars, sessVars>>

ValidateTaskDependencies ==
    \E task_id \in Tasks, sh \in ShowAnswers, dp \in DepsAnswers, deps \in SUBSET DepIds :
        \E ds \in DepShowAnswers(deps) :
            LET e == [show |-> sh, deps |-> dp, show_deps |-> deps, dep_show |-> ds] IN
            ValidatorCall("validate_task_dependencies", task_id, e,
                          validate_task_dependencies(task_id, e))

ValidateGitState ==
    \E task_id \in Tasks, cu \in CurrentAnswers, br \in BranchesAnswers,
       st \in {GitAnswer(FALSE, FALSE), GitAnswer(TRUE, FALSE), GitAnswer(TRUE, TRUE)},
       un \in {GitAnswer(FALSE, {}), GitAnswer(TRUE, {}), GitAnswer(TRUE, {"task-1", "feature"})},
       sh \in {Call(TRUE, {}), Call(FALSE, {})}, deps \in SUBSET DepIds :
        LET e == [current |-> cu, branches |-> br, status |-> st, unmerged |-> un,
                  show |-> sh, show_deps |-> deps] IN
        /\ sh.raises => deps = {}
        /\ ValidatorCall("validate_git_state", task_id, e, validate_git_state(task_id, e))

ValidateTaskOrder ==
    \E task_id \in Tasks, ls \in ListAnswers :
        LET e == [list |-> ls] IN
        ValidatorCall("validate_task_order", task_id, e, validate_task_order(task_id, e))

ValidateAllPreconditions ==
    \E task_id \in Tasks, sh \in ShowAnswers, dp \in DepsAnswers,
       br \in BranchesAnswers, cu \in CurrentAnswers,
       nx \in {Call(TRUE, {}), Call(FALSE, {}), Call(FALSE, {"2.1"})} :
        LET e == [show |-> sh, deps |-> dp, branches |-> br, current |-> cu, next |-> nx] IN
        ValidatorCall("validate_all_preconditions", task_id, e,
                      validate_all_preconditions(task_id, e))

\* the caller drops the result
DropValidation ==
    /\ pc = "validated"
    /\ pc' = "validators"
    /\ vcall' = NoCall
    /\ vresult' = NoValidation
    /\ UNCHANGED <<current_function, iteration, context, result, returned, call, cmds>>
    /\ UNCHANGED <<gitVars, sessVars>>

InitValidators ==
    /\ pc = "validators"
    /\ NoWorkflow /\ FreshGit /\ NoSession /\ NoValidator

NextValidators ==
    \/ ValidateTaskDependencies
    \/ ValidateGitState
    \/ ValidateTaskOrder
    \/ ValidateAllPreconditions
    \/ DropValidation

SpecValidators == InitValidators /\ [][NextValidators]_vars

(***************************************************************************)
(* The granular validators and validate_all_preconditions called on the    *)
(* same task in the same tracker and git state                             *)
(***************************************************************************)

\* validate_task_dependencies, validate_git_state and
\* validate_all_preconditions, each asking the same tracker and repository
ValidateBothWays ==
    /\ pc = "agreement"
    /\ \E task_id \in Tasks, sh \in ShowAnswers, dp \in DepsAnswers,
          cu \in CurrentAnswers, br \in BranchesAnswers,
          deps \in SUBSET {"1"}, ds \in DepShowAnswers({"1"}) :
        LET e == [show |-> sh, deps |-> dp, show_deps |-> deps,
                  dep_show |-> ds,
                  current |-> cu, branches |-> br,
                  status |-> GitAnswer(TRUE, FALSE), unmerged |-> GitAnswer(TRUE, {}),
                  next |-> Call(FALSE, {task_id})] IN
        /\ ds \in DepShowAnswers(deps)
        /\ sh.raises => deps = {}
        /\ vcall' = [validator |-> "all", task_id |-> task_id, e |-> e]
        /\ vresult' = [dependencies |-> validate_task_dependencies(task_id, e),
                       git_state |-> validate_git_state(task_id, e),
                       combined |-> validate_all_preconditions(task_id, e)]
    /\ pc' = "agreed"
    /\ UNCHANGED <<current_function, iteration, context, result, returned, call, cmds>>
    /\ UNCHANGED <<gitVars, sessVars>>

\* the caller drops the three results
DropBothWays ==
    /\ pc = "agreed"
    /\ pc' = "agreement"
    /\ vcall' = NoCall
    /\ vresult' = NoValidation
    /\ UNCHANGED <<current_function, iteration, context, result, returned, call, cmds>>
    /\ UNCHANGED <<gitVars, sessVars>>

InitAgreement ==
    /\ pc = "agreement"
    /\ NoWorkflow /\ FreshGit /\ NoSession /\ NoValidator

NextAgreement == ValidateBothWays \/ DropBothWays

SpecAgreement == InitAgreement /\ [][NextAgreement]_vars

(***************************************************************************)
(* The two command gateways called directly on every way subprocess.run    *)
(* can end                                                                 *)
(***************************************************************************)

ExitCodes == {0, 1, 127, 128}

StreamTexts == { {}, {"main"}, {"nothing to commit"}, {"fatal: not a git repository"} }

LaunchErrors == { "No such file or directory", "Not a directory" }

\* how subprocess.run ends: the shell ran and exited, or the call itself
\* raised before a shell was running
ProcessOutcomes ==
    { [launched |-> TRUE, exit_code |-> c, stdout |-> o, stderr |-> e, exception |-> ""]
        : c \in ExitCodes, o \in StreamTexts, e \in StreamTexts }
    \cup
    { [launched |-> FALSE, exit_code |-> 0, stdout |-> {}, stderr |-> {}, exception |-> x]
        : x \in LaunchErrors }

\* what a gateway hands to its caller: a value of some type, or an exception
GatewayReturns(type, value) == [raised |-> FALSE, type |-> type, value |-> value]
GatewayRaises(exception) == [raised |-> TRUE, type |-> "exception", value |-> exception]

\* run_git_command from subprocess.run on: the except arm builds the
\* launch-failure dict
git_gateway(proc) ==
    IF proc.launched THEN
        GatewayReturns("dict", run_git_command([exit_code |-> proc.exit_code,
                                                stdout |-> proc.stdout,
                                                stderr |-> proc.stderr]))
    ELSE
        GatewayReturns("dict", [success |-> FALSE, stdout |-> {},
                                stderr |-> {proc.exception}, exit_code |-> -1])

\* run_taskmaster: subprocess.run(check=True) raises CalledProcessError on
\* a non-zero exit, the only exception the function catches
run_taskmaster(proc) ==
    IF ~proc.launched THEN GatewayRaises(proc.exception)
    ELSE IF proc.exit_code # 0 THEN GatewayReturns("str", {"Error: "} \cup proc.stderr)
    ELSE GatewayReturns("str", proc.stdout)

GatewayCall(gateway, proc, res) ==
    /\ pc = "gateways"
    /\ pc' = "returned"
    /\ call' = [role |-> gateway, proc |-> proc]
    /\ result' = res
    /\ UNCHANGED <<current_function, iteration, context, returned, cmds>>
    /\ UNCHANGED <<gitVars, sessVars, valVars>>

RunGitCommand ==
    \E proc \in ProcessOutcomes : GatewayCall("run_git_command", proc, git_gateway(proc))

RunTaskmaster ==
    \E proc \in ProcessOutcomes : GatewayCall("run_taskmaster", proc, run_taskmaster(proc))

\* the caller drops what the gateway handed back
DropGatewayResult ==
    /\ pc = "returned"
    /\ pc' = "gateways"
    /\ call' = NoCall
    /\ result' = NoResult
    /\ UNCHANGED <<current_function, iteration, context, returned, cmds>>
    /\ UNCHANGED <<gitVars, sessVars, valVars>>

InitGateways ==
    /\ pc = "gateways"
    /\ NoWorkflow /\ FreshGit /\ NoSession /\ NoValidator

NextGateways == RunGitCommand \/ RunTaskmaster \/ DropGatewayResult

SpecGateways == InitGateways /\ [][NextGateways]_vars

(***************************************************************************)
(* The loop body of execute_functional_workflow on role results of every   *)
(* shape an AgentResult can take                                           *)
(***************************************************************************)

\* context_update values a result can carry
ContextUpdates ==
    { EmptyDict,
      [reason |-> "need_specific_test_cases"],
      [current_phase |-> "tdd_implementation"],
      [current_phase |-> "planning_with_research"],
      [current_phase |-> "research_after_orchestration"],
      [data |-> ("k1" :> "v1")] }

\* results a role function can hand to the loop body
RoleResults ==
    { AgentResult("success", EmptyDict, "None", EmptyDict, "message"),
      AgentResult("fail", EmptyDict, "None", EmptyDict, "message") }
    \cup
    { AgentResult("escalate", EmptyDict, to, cu, "message")
        : to \in EscalationTargets \cup {"human"}, cu \in ContextUpdates }
    \cup
    { AgentResult("retry", EmptyDict, "None", cu, "message") : cu \in ContextUpdates }

\* one iteration of the while loop: current_function hands back some result
DispatchResult ==
    /\ pc = "loop"
    /\ iteration < max_iterations
    /\ \E res \in RoleResults :
        /\ iteration' = iteration + 1
        /\ call' = [role |-> current_function, arg |-> context, after |-> context]
        /\ cmds' = <<>>
        /\ result' = res
        /\ Dispatch(Returns(res, context, <<>>))
    /\ UNCHANGED <<gitVars, sessVars, valVars>>

NextDispatch == DispatchResult \/ MaxIterationsReached

SpecDispatch == Init /\ [][NextDispatch]_vars

(***************************************************************************)
(* TaskContext's methods called directly on one context: escalations, then *)
(* up to two update calls in a row, each result taking the place of the    *)
(* context                                                                 *)
(***************************************************************************)

\* the most escalations recorded before update is called
MaxCtxHistory == 2

DataKeys == {"k1", "k2", "k3"}

DataValues == {"v1", "v2"}

\* keyword arguments update is called with: one data entry, a phase, both,
\* or a keyword update does not know
UpdateKwargs ==
    { [data |-> (k :> v)] : k \in DataKeys, v \in DataValues }
    \cup { [current_phase |-> "tdd_implementation"],
           [current_phase |-> "planning_with_research", data |-> ("k1" :> "v2")],
           [data |-> EmptyDict],
           [reason |-> "v1"] }

EdgeEnds ==
    { <<"tester", "planner">>, <<"planner", "researcher">>,
      <<"researcher", "orchestrator">>, <<"orchestrator", "human">> }

CtxIdle ==
    /\ UNCHANGED <<current_function, iteration, result, returned, cmds>>
    /\ UNCHANGED <<gitVars, sessVars, valVars>>

\* context.escalate(from_agent, to_agent, reason)
CtxEscalate ==
    /\ pc = "ctx"
    /\ call = NoCall
    /\ Len(context.history) < MaxCtxHistory
    /\ \E ends \in EdgeEnds :
        context' = escalate(context, ends[1], ends[2], Reason("reason", 0))
    /\ UNCHANGED <<pc, call>>
    /\ CtxIdle

\* context = context.update(**kwargs); call keeps the context the run of
\* update calls started from and the keyword arguments applied since
CtxUpdate ==
    /\ pc = "ctx"
    /\ IF call = NoCall THEN TRUE ELSE Len(call.kws) < 2
    /\ \E kwargs \in UpdateKwargs :
        /\ context' = update(context, kwargs)
        /\ call' = IF call = NoCall
                   THEN [role |-> "update", arg |-> context, kws |-> <<kwargs>>]
                   ELSE [call EXCEPT !.kws = Append(@, kwargs)]
    /\ UNCHANGED pc
    /\ CtxIdle

\* the caller goes on with the context it now holds
CtxForget ==
    /\ pc = "ctx"
    /\ call # NoCall
    /\ call' = NoCall
    /\ UNCHANGED <<pc, context>>
    /\ CtxIdle

InitContext ==
    /\ pc = "ctx"
    /\ NoWorkflow /\ FreshGit /\ NoSession /\ NoValidator

NextContext == CtxEscalate \/ CtxUpdate \/ CtxForget

SpecContext == InitContext /\ [][NextContext]_vars

(***************************************************************************)
(* Properties of the driver loop                                           *)
(***************************************************************************)

Range(seq) == {seq[i] : i \in DOMAIN seq}

Terminal(res) == res.action \in {"success", "fail"}

ReportsMaxIterations(res) ==
    /\ res.action = "fail"
    /\ "max_iterations_reached" \in DOMAIN res.data
    /\ res.data.max_iterations_reached = "True"

\* C1: the driver invokes a role at most 20 times; when it has returned and
\* the last role result was neither Success nor Fail, 20 roles were invoked
\* and the value returned is a Fail with max_iterations_reached = true; after
\* 20 invocations no further role can be invoked.
C1_IterationCeiling ==
    /\ iteration <= 20
    /\ (pc = "done" /\ ~Terminal(result))
           => (iteration = 20 /\ ReportsMaxIterations(returned))
    /\ (pc = "loop" /\ iteration = 20)
           => (~ENABLED (TesterStep \/ PlannerStep \/ ResearcherStep \/ OrchestratorStep)
               /\ ENABLED MaxIterationsReached)

\* twenty roles answered without Success or Fail, the last one with Retry,
\* and the driver returned the max-iterations Fail
C1_Witness ==
    /\ pc = "done" /\ iteration = 20
    /\ result.action = "retry"
    /\ ReportsMaxIterations(returned)

\* C3: a role result with action Success or Fail ends the loop at once: the
\* driver has returned exactly that result, and once it has returned nothing
\* more happens (no role is invoked afterwards).
C3_TerminalResultEndsLoop ==
    /\ [](Terminal(result) => (pc = "done" /\ returned = result))
    /\ [][pc # "done"]_vars

\* a role failed before the ceiling and the driver returned its result
C3_Witness ==
    /\ pc = "done" /\ iteration < 20
    /\ result.action = "fail" /\ call.role = "orchestrator"
    /\ returned = result

(***************************************************************************)
(* Properties of the role functions                                        *)
(***************************************************************************)

OwnEdge(role) ==
    CASE role = "tester"       -> "tester->planner"
      [] role = "planner"      -> "planner->researcher"
      [] role = "researcher"   -> "researcher->orchestrator"
      [] role = "orchestrator" -> "orchestrator->human"

NextInChain(role) ==
    CASE role = "tester"       -> "planner"
      [] role = "planner"      -> "researcher"
      [] role = "researcher"   -> "orchestrator"
      [] role = "orchestrator" -> "human"

\* the role was invoked with its own edge counter at the ceiling of 3 or above
AtCeiling(role) ==
    /\ call.role = role
    /\ call.arg.escalation_count[OwnEdge(role)] >= 3

\* no attempt was made, and the role escalated to the next role (the
\* orchestrator: failed)
NoAttemptButEscalation(role) ==
    /\ IF role = "tester" THEN "tdd_cycle" \notin Range(cmds) ELSE cmds = <<>>
    /\ IF role = "orchestrator"
       THEN result.action = "fail"
       ELSE result.action = "escalate" /\ result.escalate_to = NextInChain(role)

LacksIndicators(text) == \A indicator \in implementable_indicators : indicator \notin text

ReadsAsLeaf(text) ==
    /\ ("subtask:" \in text \/ "parent task:" \in text)
    /\ ~("subtasks:" \in text /\ "pending" \in text)

\* C10: when the text the tracker shows is not implementable (no indicator
\* phrase, or not a leaf subtask), the Tester returns Escalate to planner,
\* tester->planner grows by exactly 1 (to 1 on a fresh context), the TDD
\* cycle is not run and the task is not marked done.
C10_NotImplementableEscalates ==
    ( /\ call.role = "tester"
      /\ ~call.env.show.raises
      /\ (LacksIndicators(call.env.show.text) \/ ~ReadsAsLeaf(call.env.show.text)) )
    =>
    ( /\ result.action = "escalate" /\ result.escalate_to = "planner"
      /\ call.after.escalation_count["tester->planner"]
            = call.arg.escalation_count["tester->planner"] + 1
      /\ \A e \in Edges \ {"tester->planner"} :
            call.after.escalation_count[e] = call.arg.escalation_count[e]
      /\ (call.arg = NewContext(call.arg.task_id, call.arg.current_phase)
            => call.after.escalation_count["tester->planner"] = 1)
      /\ "tdd_cycle" \notin Range(cmds)
      /\ "set-status done" \notin Range(cmds) )

\* the spec's scenario: a text with "parent task:" and no indicator phrase,
\* shown for a fresh context
C10_Witness ==
    /\ call.role = "tester"
    /\ call.env.show = Call(FALSE, {"parent task:"})
    /\ call.arg = NewContext("2.1", "start")
    /\ result.action = "escalate"
    /\ call.after.escalation_count["tester->planner"] = 1

(***************************************************************************)
(* Properties of the validators                                            *)
(***************************************************************************)

\* C4: every ValidationResult a validator returns, early returns and
\* exception paths included, has valid = TRUE exactly when its error list is
\* empty.
C4_ValidIffNoErrors ==
    vresult # NoValidation => (vresult.valid = (Len(vresult.errors) = 0))

\* validate_git_state left through its early return: the current branch
\* could not be read
C4_Witness ==
    /\ vcall # NoCall
    /\ vcall.validator = "validate_git_state"
    /\ ~vcall.e.current.success
    /\ vresult.valid = FALSE
    /\ vresult.errors = <<"Failed to get current git branch">>

(***************************************************************************)
(* Properties of the git coordinator                                       *)
(***************************************************************************)

CmdNames == {git_cmds[i].cmd : i \in DOMAIN git_cmds}

BranchDeleteCmds == {"branch -d " \o BranchName(t) : t \in Tasks}

MergeCmds == {"merge " \o BranchName(t) : t \in Tasks}

\* C7: merge_task for a task with no entry in task_branches returns Fail,
\* issues no git command and leaves the GitContext (and the repository) as
\* they were.
C7_MergeWithoutBranchFails ==
    ( /\ git_call # NoCall
      /\ git_call.action = "merge_task"
      /\ git_call.task_id \notin DOMAIN git_call.gc_before.task_branches )
    =>
    ( /\ git_result.action = "fail"
      /\ git_cmds = <<>>
      /\ git_context = git_call.gc_before
      /\ repo = git_call.repo_before )

\* merge_task was called for 2.2 while only 2.1 has a recorded branch
C7_Witness ==
    /\ git_call # NoCall
    /\ git_call.action = "merge_task" /\ git_call.task_id = "2.2"
    /\ DOMAIN git_call.gc_before.task_branches = {"2.1"}
    /\ git_result.action = "fail"

\* C8: when the commit command exits non-zero, commit_phase returns Success
\* if the command reported "nothing to commit" (git writes that report to its
\* standard output) and Fail for every other non-zero exit.
C8_NothingToCommitIsSuccess ==
    ( /\ git_call # NoCall
      /\ git_call.action = "commit_phase"
      /\ git_call.env.commit.exit_code # 0 )
    =>
    ( /\ "nothing to commit" \in git_call.env.commit.stdout
            => git_result.action = "success"
      /\ "nothing to commit" \notin git_call.env.commit.stdout
            => git_result.action = "fail" )

\* the commit command exited 1 reporting "nothing to commit"
C8_Witness ==
    /\ git_call # NoCall
    /\ git_call.action = "commit_phase"
    /\ git_call.env.commit.exit_code = 1
    /\ "nothing to commit" \in git_call.env.commit.stdout
    /\ git_result.action = "success"
    /\ git_context.commits = git_call.gc_before.commits

\* C9: a branch-delete command is issued only by merge_task and only after
\* the merge command of the same call succeeded; when the merge fails no
\* branch is deleted, the task branch is still there and the call returns
\* Fail.
C9_DeleteOnlyAfterMerge ==
    /\ \A i \in DOMAIN git_cmds :
          git_cmds[i].cmd \in BranchDeleteCmds =>
              /\ git_call.action = "merge_task"
              /\ \E j \in 1..(i - 1) : git_cmds[j].cmd \in MergeCmds /\ git_cmds[j].ok
    /\ (git_call # NoCall /\ git_call.repo_before.branches \ repo.branches # {})
          => CmdNames \cap BranchDeleteCmds # {}
    /\ \A i \in DOMAIN git_cmds :
          (git_cmds[i].cmd \in MergeCmds /\ ~git_cmds[i].ok) =>
              /\ git_result.action = "fail"
              /\ CmdNames \cap BranchDeleteCmds = {}
              /\ repo.branches = git_call.repo_before.branches

\* a merge failed after an earlier one had succeeded and deleted its branch
C9_Witness ==
    /\ git_call # NoCall
    /\ git_call.action = "merge_task"
    /\ \E i \in DOMAIN git_cmds : git_cmds[i].cmd \in MergeCmds /\ ~git_cmds[i].ok
    /\ git_result.action = "fail"
    /\ BranchName(git_call.task_id) \in repo.branches
    /\ repo.merged # {}

(***************************************************************************)
(* Properties of the development session                                   *)
(***************************************************************************)

Mutations ==
    {"create_branch", "commit red", "commit green", "commit refactor",
     "tag_completion", "mark_done"}

\* C5: in a session, branch creation, a phase commit, the completion tag or
\* marking the task done happens for a task only after
\* validate_all_preconditions returned valid for that task in the same
\* attempt; after an invalid verdict the enhanced Tester has returned Fail
\* and none of them was performed.
C5_ValidationBeforeMutation ==
    /\ \A i \in DOMAIN attempt_log :
          attempt_log[i] \in Mutations =>
              /\ i > 1 /\ attempt_log[1] = "validate"
              /\ vcall.task_id = next_task
              /\ vresult.valid = TRUE
    /\ (attempt_log # <<>> /\ vresult.valid = FALSE) =>
          /\ attempt_log = <<"validate">>
          /\ tester_result.action = "fail"
          /\ "validation_errors" \in DOMAIN tester_result.data

\* a second task was refused by the validator after the first had been
\* completed: nothing was done for it
C5_Witness ==
    /\ pc = "end"
    /\ Len(session_result.tasks_completed) = 1
    /\ next_task \notin Range(session_result.tasks_completed)
    /\ vresult.valid = FALSE
    /\ attempt_log = <<"validate">>
    /\ tester_result.action = "fail"
    /\ BranchName(next_task) \notin repo.branches

\* C6: the first task whose processing ends in Fail stops the session: it is
\* the one entry of tasks_blocked, with the Fail's message as reason, the
\* status is blocked, the tracker has been asked once per task processed and
\* is not asked again, and nothing happens after the session has ended.
C6_FailStopsSession ==
    /\ [](tester_result.action = "fail" =>
             /\ pc = "end"
             /\ session_result.status = "blocked"
             /\ session_result.tasks_blocked =
                    <<[task_id |-> next_task, reason |-> tester_result.message,
                       data |-> tester_result.data]>>
             /\ asked = task_count)
    /\ [](tester_result.action # "fail" => session_result.tasks_blocked = <<>>)
    /\ [][pc = "end" => asked' = asked]_vars

\* the third task of a session failed validation and the session stopped
C6_Witness ==
    /\ pc = "end"
    /\ task_count = 3 /\ asked = 3
    /\ Len(session_result.tasks_completed) = 2
    /\ tester_result.action = "fail"
    /\ session_result.status = "blocked"
    /\ Len(session_result.tasks_blocked) = 1

(***************************************************************************)
(* Properties of the driver and the roles together                         *)
(***************************************************************************)

\* the Planner ran below its ceiling, the expansion output was judged
\* successful and the tracker lists subtasks under the task
PlannerExpandedIntoSubtasks ==
    /\ call.role = "planner"
    /\ call.arg.escalation_count["planner->researcher"] < 3
    /\ ~call.env.expand.raises
    /\ expansion_successful(call.env.expand.text)
    /\ ~call.env.show_raises
    /\ call.env.subtasks > 0

\* C11 as stated: when the Planner runs below its ceiling, the expansion is
\* judged successful and the task has at least one subtask, the Planner
\* returns Retry, the context for the next role has the first subtask as
\* task_id and current_phase "tdd_implementation", and the driver goes on
\* with the Tester.
C11_Original ==
    PlannerExpandedIntoSubtasks =>
        /\ result.action = "retry"
        /\ pc = "loop"
        /\ context.task_id = FirstSubtask(call.arg.task_id)
        /\ context.current_phase = "tdd_implementation"
        /\ current_function = "tester"

\* C12 as stated: a run in which the Orchestrator was reached and none of its
\* attempts raised ends with the Orchestrator's Fail at its ceiling, carrying
\* requires_human_intervention = true and a non-empty history, not with
\* max_iterations_reached.  (An attempt that raises ends the run at once, so
\* a finished run whose last invocation was an Orchestrator attempt that did
\* not raise is such a run.)
C12_Original ==
    (pc = "done" /\ call.role = "orchestrator" /\ call.env.fail_at = 0) =>
        /\ returned.action = "fail"
        /\ "max_iterations_reached" \notin DOMAIN returned.data
        /\ "requires_human_intervention" \in DOMAIN returned.data
        /\ returned.data.requires_human_intervention = "True"
        /\ returned.data.history # <<>>
        /\ call.arg.escalation_count["orchestrator->human"] >= 3

\* C14 as stated: after a Researcher attempt returns Retry, the driver goes
\* on with the Planner, the context's current_phase is
\* "planning_with_research" and its data bag holds that attempt's findings.
C14_Original ==
    (pc = "loop" /\ call.role = "researcher" /\ result.action = "retry") =>
        /\ current_function = "planner"
        /\ context.current_phase = "planning_with_research"
        /\ "research_result" \in DOMAIN context.data
        /\ "research_type" \in DOMAIN context.data
        /\ context.data.research_type = result.data.research_type

\* C15 as stated: after an Orchestrator attempt returns Retry, the context's
\* current_phase is "research_after_orchestration" and the driver goes on
\* with the Researcher.
C15_Original ==
    (pc = "loop" /\ call.role = "orchestrator" /\ result.action = "retry") =>
        /\ context.current_phase = "research_after_orchestration"
        /\ current_function = "researcher"

(***************************************************************************)
(* Properties of TaskContext                                               *)
(***************************************************************************)

\* two update calls in a row, each with a data keyword, on disjoint keys
TwoDataUpdates ==
    /\ call.role = "update"
    /\ Len(call.kws) = 2
    /\ DOMAIN call.kws[1] = {"data"} /\ DOMAIN call.kws[2] = {"data"}
    /\ DOMAIN call.kws[1].data # {} /\ DOMAIN call.kws[2].data # {}
    /\ DOMAIN call.kws[1].data \cap DOMAIN call.kws[2].data = {}

\* C13: update(data={k1: v1}) followed by update(data={k2: v2}), k1 # k2,
\* gives a context whose data holds k1 -> v1, k2 -> v2 and every other entry
\* of the starting context, and whose history, escalation_count (and task_id
\* and current_phase) are those of the starting context.
C13_UpdatesMerge ==
    TwoDataUpdates =>
        LET d1 == call.kws[1].data
            d2 == call.kws[2].data
        IN
        /\ DOMAIN context.data = DOMAIN call.arg.data \cup DOMAIN d1 \cup DOMAIN d2
        /\ \A k \in DOMAIN d1 : context.data[k] = d1[k]
        /\ \A k \in DOMAIN d2 : context.data[k] = d2[k]
        /\ \A k \in DOMAIN call.arg.data \ (DOMAIN d1 \cup DOMAIN d2) :
              context.data[k] = call.arg.data[k]
        /\ context.history = call.arg.history
        /\ context.escalation_count = call.arg.escalation_count
        /\ context.task_id = call.arg.task_id
        /\ context.current_phase = call.arg.current_phase

\* a context with two recorded escalations and the entry k3 -> v1 was given
\* k1 -> v1 and then k2 -> v2
C13_Witness ==
    /\ call.role = "update"
    /\ call.kws = <<[data |-> ("k1" :> "v1")], [data |-> ("k2" :> "v2")]>>
    /\ Len(call.arg.history) = 2
    /\ call.arg.data = ("k3" :> "v1")
    /\ context.data = ("k1" :> "v1" @@ "k2" :> "v2" @@ "k3" :> "v1")

(***************************************************************************)
(* Properties of the loop body                                             *)
(***************************************************************************)

C17_Original ==
    (pc = "loop" /\ result.action \in {"escalate", "retry"}) =>
        /\ \A k \in DOMAIN result.context_update :
              /\ k \in DOMAIN context.data
              /\ context.data[k] = result.context_update[k]
        /\ \A k \in DOMAIN call.arg.data \ DOMAIN result.context_update :
              /\ k \in DOMAIN context.data
              /\ context.data[k] = call.arg.data[k]

\* C18 as stated: a role function leaves the TaskContext it receives as it
\* was: history, escalation_count, data, task_id and current_phase of the
\* argument are the same after the call as before.
C18_Original ==
    call.role \in Roles => call.after = call.arg

\* an external call made by the role raised during this invocation
RaisedInside ==
    CASE call.role = "tester" ->
            call.env.show.raises \/ call.env.set_status_raises
      [] call.role = "planner" ->
            /\ call.arg.escalation_count["planner->researcher"] < 3
            /\ call.env.expand.raises
      [] call.role = "researcher" -> call.env.fail_at > 0
      [] call.role = "orchestrator" -> call.env.fail_at > 0
      [] OTHER -> FALSE

\* C19 as stated: an exception raised inside a role (the Tester's tracker
\* call before its TDD attempt and the Planner included) is turned into a
\* Fail result carrying the exception text, and no exception leaves
\* execute_functional_workflow.
C19_Original ==
    /\ pc # "raised"
    /\ RaisedInside =>
          /\ result.action = "fail"
          /\ "error" \in DOMAIN result.data

(***************************************************************************)
(* Properties of the validators compared with each other                   *)
(***************************************************************************)

\* the messages of each individual check, in either wording
DoneMessages(task_id) ==
    { "Task " \o task_id \o " is already marked as done",
      "Task " \o task_id \o " is already completed" }

DependencyGraphMessages == { "Task Master reports dependency issues" }

OtherBranchMessages(task_id) ==
    UNION { { "Already on task branch: " \o b, "Currently on task branch: " \o b }
            : b \in {BranchName(id) : id \in BranchIds} \ {BranchName(task_id)} }

ExistingBranchMessages(task_id) ==
    { "Branch 'task-" \o task_id \o "' already exists" }

CheckMessages(task_id) ==
    { DoneMessages(task_id), DependencyGraphMessages,
      OtherBranchMessages(task_id), ExistingBranchMessages(task_id) }

\* C20 as stated: on the same task and the same tracker and git state, each
\* individual check (task already done, dependency-graph output, checked
\* out on another task's branch, existing branch for the task) is an error
\* of the granular validators exactly when it is an error of
\* validate_all_preconditions, and a warning exactly when it is a warning.
C20_Original ==
    pc = "agreed" =>
        LET granular_errors ==
                Range(vresult.dependencies.errors) \cup Range(vresult.git_state.errors)
            granular_warnings ==
                Range(vresult.dependencies.warnings) \cup Range(vresult.git_state.warnings)
        IN
        \A msgs \in CheckMessages(vcall.task_id) :
            /\ (granular_errors \cap msgs # {})
                  <=> (Range(vresult.combined.errors) \cap msgs # {})
            /\ (granular_warnings \cap msgs # {})
                  <=> (Range(vresult.combined.warnings) \cap msgs # {})

\* a dependency of the task whose "show" answer does not say it is done
OpenDependencies ==
    { d \in vcall.e.show_deps :
        /\ ~vcall.e.dep_show[d].raises
        /\ ~Has("(check) done", vcall.e.dep_show[d].text) }

\* the error messages about one dependency
DependencyMessages(d) ==
    { "Dependency " \o d \o " is still pending",
      "Dependency " \o d \o " is still in progress",
      "Dependency " \o d \o " has unknown status" }

\* C21 as stated: validate_all_preconditions reports every dependency of the
\* task that is not completed as an error and lists it in blocking_tasks, so
\* its verdict is invalid whenever a dependency is pending or in progress.
C21_Original ==
    (pc = "agreed" /\ OpenDependencies # {}) =>
        /\ ~vresult.combined.valid
        /\ \A d \in OpenDependencies :
              /\ d \in Range(vresult.combined.blocking_tasks)
              /\ Range(vresult.combined.errors) \cap DependencyMessages(d) # {}

(***************************************************************************)
(* Properties of the command gateways                                      *)
(***************************************************************************)

\* C22 as stated: neither gateway raises to its caller; a non-zero exit and
\* a launch failure both come back as data with success = (exit_code = 0),
\* and for a launch failure success = false, exit_code = -1 and the
\* exception text as the error text.
C22_Original ==
    pc = "returned" =>
        /\ ~result.raised
        /\ result.type = "dict"
        /\ IF call.proc.launched
           THEN /\ result.value.exit_code = call.proc.exit_code
                /\ result.value.success = (call.proc.exit_code = 0)
           ELSE /\ result.value.success = FALSE
                /\ result.value.exit_code = -1
                /\ result.value.stderr = {call.proc.exception}

(***************************************************************************)
(* Properties of the session's loop                                        *)
(***************************************************************************)

\* C23: run_development_session starts on at most 10 tasks and always
\* reaches its end, whatever the tracker and git answer; when the tracker
\* names no next task the session ends at once with status no_more_tasks.
C23_SessionBounded ==
    /\ [](/\ task_count <= 10
          /\ Len(session_result.tasks_completed) + Len(session_result.tasks_blocked)
                <= task_count
          /\ asked <= task_count + 1
          /\ (asked = task_count + 1) =>
                (pc = "end" /\ session_result.status = "no_more_tasks"))
    /\ <>(pc = "end")

\* the session ended because it had started on ten tasks
C23_Witness ==
    /\ pc = "end"
    /\ task_count = 10
    /\ asked = 10
    /\ session_result.status = "completed"

(***************************************************************************)
(* Properties of the driver's Retry and Escalate handling                  *)
(***************************************************************************)

\* C24 as stated: after a Retry the driver's next role is determined by
\* context.current_phase alone, so whichever role had been active before,
\* the phase reached leads to the role the driver now continues with.
C24_Original ==
    (pc = "loop" /\ result.action = "retry") =>
        \A previous \in Roles :
            RetryFunction(previous, context.current_phase) = current_function

(***************************************************************************)
(* Properties of the escalation chain                                      *)
(***************************************************************************)

\* C25: every Escalate result a role produces names the next role in the
\* chain Tester, Planner, Researcher, Orchestrator, and the Orchestrator
\* never returns Escalate.
C25_EscalationChain ==
    (call.role \in Roles /\ result.action = "escalate") =>
        /\ call.role # "orchestrator"
        /\ result.escalate_to = NextInChain(call.role)
        /\ result.escalate_to \in Roles

\* the Researcher at its ceiling hands the task to the Orchestrator
C25_Witness ==
    /\ call.role = "researcher"
    /\ call.arg.escalation_count["researcher->orchestrator"] = 3
    /\ result.action = "escalate"
    /\ result.escalate_to = "orchestrator"

(***************************************************************************)
(* Properties of the escalation counters and the history                   *)
(***************************************************************************)

\* C26: every per-edge escalation counter is non-decreasing; a role that
\* returns Escalate has raised the counter of its own edge by exactly 1 and
\* left the others alone, at its ceiling too; the driver's handling of the
\* result, context update included, changes no counter.
C26_CountersMonotone ==
    [][ /\ \A e \in Edges :
              context'.escalation_count[e] \in
                  { context.escalation_count[e], context.escalation_count[e] + 1 }
        /\ (pc = "roles" /\ result'.action = "escalate") =>
              \A e \in Edges :
                  context'.escalation_count[e] =
                      IF e = OwnEdge(call'.role)
                      THEN context.escalation_count[e] + 1
                      ELSE context.escalation_count[e]
        /\ pc = "called" => context'.escalation_count = context.escalation_count
      ]_vars

\* the Researcher was called at its ceiling and its counter went from 3 to 4
C26_Witness ==
    /\ pc = "called"
    /\ call.role = "researcher"
    /\ call.arg.escalation_count["researcher->orchestrator"] = 3
    /\ result.action = "escalate"
    /\ context.escalation_count["researcher->orchestrator"] = 4

\* b is a with zero or more records appended
Extends(b, a) ==
    /\ Len(a) <= Len(b)
    /\ SubSeq(b, 1, Len(a)) = a

\* C27: during one run of execute_functional_workflow the context's history
\* is append-only: the history the role leaves behind is the history it was
\* given with zero or more records appended, and so is the history of the
\* context the driver continues with after applying the context update.
C27_HistoryAppendOnly ==
    [][ /\ Extends(context'.history, context.history)
        /\ iteration' # iteration =>
              /\ Extends(call'.after.history, context.history)
              /\ Extends(context'.history, call'.after.history)
      ]_vars

\* the driver has applied a context update to a context whose history holds
\* two records, and both are still there in their order
C27_Witness ==
    /\ pc = "loop"
    /\ call.role = "planner"
    /\ result.action = "escalate"
    /\ DOMAIN result.context_update # {}
    /\ Len(context.history) = 2
    /\ context.history[1].from = "tester"
    /\ context.history[2].from = "planner"

(***************************************************************************)
(* Properties of validate_all_preconditions                                *)
(***************************************************************************)

\* what each of the four checks finds, read off the answers alone
TaskCheckErrs ==
    IF vcall.e.show.raises THEN {"Failed to check task status"}
    ELSE IF Has("not found", vcall.e.show.text) \/ Has("error", vcall.e.show.text)
         THEN {"Task " \o vcall.task_id \o " not found"}
    ELSE IF Has("(check) done", vcall.e.show.text)
         THEN {"Task " \o vcall.task_id \o " is already completed"}
    ELSE IF Has("blocked", vcall.e.show.text)
         THEN {"Task " \o vcall.task_id \o " is blocked"}
    ELSE {}

DepsCheckErrs ==
    IF /\ ~vcall.e.deps.raises
       /\ vcall.e.deps.text \notin { {"no invalid dependencies found"},
                                     {"all dependencies are valid"} }
    THEN {"Task Master reports dependency issues"}
    ELSE {}

GitCheckErrs ==
    IF vcall.e.branches.success /\ BranchName(vcall.task_id) \in vcall.e.branches.out
    THEN {"Branch 'task-" \o vcall.task_id \o "' already exists"}
    ELSE {}

ChecksWarnings ==
    (IF vcall.e.deps.raises THEN {"Could not validate dependencies"} ELSE {})
    \cup
    (IF /\ vcall.e.current.success
        /\ vcall.e.current.out \in {"task-1", "task-2.1", "task-2.2"} \ {BranchName(vcall.task_id)}
     THEN {"Currently on task branch: " \o vcall.e.current.out} ELSE {})
    \cup
    (IF vcall.e.next.raises THEN {"Could not check next task"}
     ELSE IF vcall.task_id \notin vcall.e.next.text
          THEN {"Task " \o vcall.task_id \o " may not be the next recommended task"}
          ELSE {})

\* C28: validate_all_preconditions evaluates all four checks on every call,
\* also after an earlier check found an error or its external call failed:
\* the errors and warnings returned are the union of what each check finds,
\* and valid holds exactly when that union of errors is empty.
C28_AllChecksEvaluated ==
    (vcall # NoCall /\ vcall.validator = "validate_all_preconditions") =>
        /\ Range(vresult.errors) = TaskCheckErrs \cup DepsCheckErrs \cup GitCheckErrs
        /\ Len(vresult.errors) = Cardinality(Range(vresult.errors))
        /\ Range(vresult.warnings) = ChecksWarnings
        /\ vresult.valid = (TaskCheckErrs \cup DepsCheckErrs \cup GitCheckErrs = {})

\* the first check's tracker call failed, and the three later checks still
\* reported what they found
C28_Witness ==
    /\ vcall # NoCall
    /\ vcall.validator = "validate_all_preconditions"
    /\ vcall.task_id = "2.1"
    /\ vcall.e.show.raises
    /\ Range(vresult.errors) = { "Failed to check task status",
                                 "Task Master reports dependency issues",
                                 "Branch 'task-2.1' already exists" }
    /\ "Task 2.1 may not be the next recommended task" \in Range(vresult.warnings)
    /\ ~vresult.valid

(***************************************************************************)
(* Properties of GitContext.task_branches                                  *)
(***************************************************************************)

\* C29 as stated: after merge_task succeeded for a task, task_branches has
\* no entry for that task, so that task_branches only maps tasks whose
\* branch exists and is not yet merged.
C29_Original ==
    /\ ( /\ git_call # NoCall
         /\ git_call.action = "merge_task"
         /\ git_result.action = "success" )
       => git_call.task_id \notin DOMAIN git_context.task_branches
    /\ \A t \in DOMAIN git_context.task_branches :
          /\ git_context.task_branches[t] \in repo.branches
          /\ git_context.task_branches[t] \notin repo.merged

(***************************************************************************)
(* Properties of the Tester's TDD attempt                                  *)
(***************************************************************************)

\* C30 as stated: for an implementable task the Tester returns Success and
\* marks the task done only when the TDD cycle passed (its final test
\* verification succeeded), and returns Escalate to planner carrying the
\* failure reason when the cycle failed.
C30_Original ==
    ( /\ call.role = "tester"
      /\ ~call.env.show.raises
      /\ has_implementable_assertions(call.env.show.text) )
    =>
    ( /\ result.action = "success" => call.env.tdd = "pass"
      /\ "set-status done" \in Range(cmds) => call.env.tdd = "pass"
      /\ call.env.tdd # "pass" =>
            /\ result.action = "escalate"
            /\ result.escalate_to = "planner"
            /\ "tdd_error" \in DOMAIN result.context_update )

(***************************************************************************)
(* Properties of the Orchestrator's Fail results and of the strategies     *)
(***************************************************************************)

\* C31 as stated: every way the Orchestrator ends in Fail, the ceiling as
\* well as an exception during an attempt, yields a result whose data has
\* requires_human_intervention = true and the full history of the context.
C31_Original ==
    (call.role = "orchestrator" /\ result.action = "fail") =>
        /\ "requires_human_intervention" \in DOMAIN result.data
        /\ result.data.requires_human_intervention = "True"
        /\ "history" \in DOMAIN result.data
        /\ result.data.history = call.after.history

\* the first command of the first, second and third strategy of each role
FirstCommands(role) ==
    CASE role = "planner" ->
            <<"expand", "expand --research", "expand --research --prompt">>
      [] role = "researcher" ->
            <<"analyze-complexity --research", "show", "research integration patterns">>
      [] role = "orchestrator" ->
            <<"tags", "update-task reduce scope", "validate-dependencies">>

\* the names the Researcher and the Orchestrator report for their strategies
StrategyNames(role) ==
    CASE role = "researcher" ->
            <<"complexity_analysis", "domain_research", "integration_research">>
      [] role = "orchestrator" ->
            <<"context_switching", "scope_reduction", "dependency_analysis">>

\* C32: Planner, Researcher and Orchestrator called with their own edge
\* counter at c < 3 run their strategy number c + 1, and the Planner returns
\* Escalate to researcher whenever the expansion is judged unsuccessful or
\* yields no subtask.
C32_StrategyByCounter ==
    ( /\ call.role \in {"planner", "researcher", "orchestrator"}
      /\ call.arg.escalation_count[OwnEdge(call.role)] < 3 )
    =>
    LET attempt == call.arg.escalation_count[OwnEdge(call.role)] + 1 IN
    /\ cmds # <<>>
    /\ cmds[1] = FirstCommands(call.role)[attempt]
    /\ \A i \in 1..3 : i # attempt =>
          \A j \in DOMAIN cmds : cmds[j] # FirstCommands(call.role)[i]
    /\ (call.role = "researcher" /\ result.action = "retry") =>
          result.data.research_type = StrategyNames("researcher")[attempt]
    /\ (call.role = "orchestrator" /\ result.action = "retry") =>
          result.data.strategy = StrategyNames("orchestrator")[attempt]
    /\ ( /\ call.role = "planner"
         /\ ~call.env.expand.raises
         /\ (~expansion_successful(call.env.expand.text) \/ call.env.subtasks = 0) )
       => (result.action = "escalate" /\ result.escalate_to = "researcher")

\* the Planner's third attempt: the expansion with the contextual prompt,
\* judged unsuccessful
C32_Witness ==
    /\ call.role = "planner"
    /\ call.arg.escalation_count["planner->researcher"] = 2
    /\ cmds = <<"expand --research --prompt">>
    /\ ~call.env.expand.raises
    /\ ~expansion_successful(call.env.expand.text)
    /\ result.action = "escalate"
    /\ result.escalate_to = "researcher"

(***************************************************************************)
(* Properties of the steps of one task in a session                        *)
(***************************************************************************)

\* the actions of a completed task up to mark-done, in the stated order
CompletedTaskActions ==
    << "create_branch", "commit red", "commit green", "commit refactor",
       "tag_completion", "mark_done" >>

\* the git and tracker actions of the task in hand, without the validation
ActionsOfTask == SelectSeq(attempt_log, LAMBDA a : a # "validate")

\* C33 as stated: for each task a session completes, the git and tracker
\* actions are branch creation, red commit, green commit, refactor commit,
\* completion tag, mark-done and then the merge, in this order, and the
\* merge is attempted before the tracker is asked for the next task.
C33_Original ==
    tester_result.action = "success" =>
        IF pc = "merge"
        THEN ActionsOfTask = CompletedTaskActions
        ELSE ActionsOfTask = CompletedTaskActions \o <<"merge_task">>

\* C37 as stated: a Fail from a phase commit or from the completion tag
\* makes the enhanced Tester return Fail, so that a task is marked done and
\* added to tasks_completed only if those operations returned Success.
C37_Original ==
    /\ ( /\ git_call # NoCall
         /\ git_call.action \in {"commit_phase", "tag_completion"}
         /\ git_result.action = "fail" )
       => (pc = "end" /\ tester_result.action = "fail")
    /\ ( /\ git_call # NoCall
         /\ git_call.action = "tag_completion"
         /\ git_call.task_id \in Range(session_result.tasks_completed) )
       => git_result.action = "success"

\* C38 as stated: whatever the tracker names as next task, every phase
\* commit of a task is executed while the task's branch is the checked-out
\* branch, never while the base branch is checked out.
C38_Original ==
    (git_call # NoCall /\ git_call.action = "commit_phase") =>
        /\ git_call.repo_before.head = BranchName(git_call.task_id)
        /\ git_call.repo_before.head # git_call.gc_before.base_branch

\* C39 as stated: after every coordinator operation, whether it returned
\* Success or Fail, GitContext.current_branch names the branch that is
\* checked out in the repository.
C39_Original ==
    git_context.current_branch = repo.head

\* C40 as stated: every task listed in tasks_completed had its branch
\* merged into the base branch before the session went on or ended.
C40_Original ==
    pc \in {"top", "end"} =>
        \A t \in Range(session_result.tasks_completed) :
            BranchName(t) \in repo.merged

(***************************************************************************)
(* Properties of the escalation record of one task run                     *)
(***************************************************************************)

\* sum(context.escalation_count.values())
EscalationTotal(ctx) ==
    ctx.escalation_count["tester->planner"]
    + ctx.escalation_count["planner->researcher"]
    + ctx.escalation_count["researcher->orchestrator"]
    + ctx.escalation_count["orchestrator->human"]

\* C34: in every state of a task run the history of the context has as many
\* records as the per-edge escalation counters add up to, for the driver's
\* context and for the context a role was handed and left behind
C34_HistoryMatchesCounters ==
    /\ Len(context.history) = EscalationTotal(context)
    /\ call # NoCall =>
          /\ Len(call.arg.history) = EscalationTotal(call.arg)
          /\ Len(call.after.history) = EscalationTotal(call.after)

\* a run in which the Tester, the Planner and the Researcher each escalated
C34_Witness ==
    /\ Len(context.history) = 3
    /\ context.escalation_count["tester->planner"] = 1
    /\ context.escalation_count["planner->researcher"] = 1
    /\ context.escalation_count["researcher->orchestrator"] = 1

\* C36 as stated: when the driver invokes the Planner, the Researcher or the
\* Orchestrator again, the role's own counter, and with it the number of the
\* attempt, is higher than at its previous invocation, or the invocation ends
\* in Escalate or Fail
C36_Original ==
    [][ ( /\ iteration' = iteration + 1
          /\ call.role \in {"planner", "researcher", "orchestrator"}
          /\ call'.role = call.role )
        => \/ call'.arg.escalation_count[OwnEdge(call.role)]
                > call.arg.escalation_count[OwnEdge(call.role)]
           \/ result'.action \in {"escalate", "fail"} ]_vars

(***************************************************************************)
(* TaskContext objects and the list and dict objects their fields refer    *)
(* to. cmds is the heap of list and dict objects, a reference is an index   *)
(* into it; context is the TaskContext update is called on, returned the    *)
(* TaskContext update returned last; call names the last operation.         *)
(***************************************************************************)

\* the most list and dict objects allocated
MaxObjects == 6

\* the most records in one history list
MaxObjHistory == 2

\* the context a TaskContext object stands for: its fields with the list and
\* dict objects they refer to
Deref(heap, obj) ==
    [ task_id          |-> obj.task_id,
      current_phase    |-> obj.current_phase,
      history          |-> heap[obj.history],
      escalation_count |-> heap[obj.escalation_count],
      data             |-> heap[obj.data] ]

\* the list and dict objects a TaskContext object refers to
RefsOf(obj) == {obj.history, obj.escalation_count, obj.data}

\* self.escalate(from_agent, to_agent, reason): item assignment on the dict
\* and append on the list self refers to
escalate_object(heap, self, from_agent, to_agent, reason) ==
    [heap EXCEPT
        ![self.escalation_count][EdgeKey(from_agent, to_agent)] = @ + 1,
        ![self.history] = Append(@, [from |-> from_agent, to |-> to_agent,
                                     reason |-> reason])]

\* mutant: the new context is handed the history list itself, not a copy
update_object_aliases_history(heap, self, kwargs) ==
    LET n == Len(heap) IN
    [ heap |-> heap \o << heap[self.history],
                          heap[self.escalation_count],
                          DictMerge(heap[self.data], KwGet(kwargs, "data", EmptyDict)) >>,
      new_context |->
        [ task_id          |-> self.task_id,
          current_phase    |-> KwGet(kwargs, "current_phase", self.current_phase),
          history          |-> self.history,
          escalation_count |-> n + 2,
          data             |-> n + 3 ] ]

\* self.update(**kwargs): self.history.copy(), self.escalation_count.copy()
\* and the dict display {**self.data, **...} each allocate a new object
update_object(heap, self, kwargs) ==
    LET n == Len(heap) IN
    [ heap |-> heap \o << heap[self.history],
                          heap[self.escalation_count],
                          DictMerge(heap[self.data], KwGet(kwargs, "data", EmptyDict)) >>,
      new_context |->
        [ task_id          |-> self.task_id,
          current_phase    |-> KwGet(kwargs, "current_phase", self.current_phase),
          history          |-> n + 1,
          escalation_count |-> n + 2,
          data             |-> n + 3 ] ]

\* keyword arguments of the update call: a data entry, a phase, or a
\* keyword update does not know
ObjKwargs ==
    { [data |-> ("k2" :> "v1")],
      [current_phase |-> "tdd_implementation"],
      [reason |-> "v1"] }

\* the escalations made on the contexts
ObjEdgeEnds == { <<"tester", "planner">>, <<"planner", "researcher">> }

\* the key stored into a data dict
StoreKeys == {"k1"}

ObjIdle ==
    /\ UNCHANGED <<pc, current_function, iteration, result>>
    /\ UNCHANGED <<gitVars, sessVars, valVars>>

\* new_context = context.update(**kwargs)
ObjUpdate ==
    /\ pc = "objects"
    /\ Len(cmds) + 3 <= MaxObjects
    /\ \E kwargs \in ObjKwargs :
        LET out == update_object(cmds, context, kwargs) IN
            /\ cmds' = out.heap
            /\ returned' = out.new_context
            /\ call' = [role |-> "update", on |-> "context", kwargs |-> kwargs]
    /\ UNCHANGED context
    /\ ObjIdle

\* obj.escalate(from_agent, to_agent, reason) on the named TaskContext
ObjEscalate(on, obj) ==
    /\ pc = "objects"
    /\ Len(cmds[obj.history]) < MaxObjHistory
    /\ \E ends \in ObjEdgeEnds :
        cmds' = escalate_object(cmds, obj, ends[1], ends[2], Reason("reason", 0))
    /\ call' = [role |-> "escalate", on |-> on]
    /\ UNCHANGED <<context, returned>>
    /\ ObjIdle

\* obj.data[key] = value on the named TaskContext
ObjStore(on, obj) ==
    /\ pc = "objects"
    /\ \E k \in StoreKeys, v \in DataValues :
        cmds' = [cmds EXCEPT ![obj.data] = DictMerge(@, k :> v)]
    /\ call' = [role |-> "store", on |-> on]
    /\ UNCHANGED <<context, returned>>
    /\ ObjIdle

EscalateOriginal == ObjEscalate("context", context)

EscalateReturned == returned # NoResult /\ ObjEscalate("returned", returned)

StoreOriginal == ObjStore("context", context)

StoreReturned == returned # NoResult /\ ObjStore("returned", returned)

\* TaskContext(task_id, project_path) after __post_init__: an empty list and
\* two empty dicts of its own
InitObjects ==
    /\ pc = "objects"
    /\ current_function = "none"
    /\ iteration = 0
    /\ cmds = << <<>>, [e \in Edges |-> 0], EmptyDict >>
    /\ \E task_id \in Tasks :
        context = [ task_id |-> task_id, current_phase |-> "start",
                    history |-> 1, escalation_count |-> 2, data |-> 3 ]
    /\ result = NoResult
    /\ returned = NoResult
    /\ call = NoCall
    /\ FreshGit /\ NoSession /\ NoValidator

NextObjects ==
    \/ ObjUpdate
    \/ EscalateOriginal
    \/ EscalateReturned
    \/ StoreOriginal
    \/ StoreReturned

SpecObjects == InitObjects /\ [][NextObjects]_vars

\* C35: the context update returns refers to no list or dict the original
\* refers to; update leaves the original as it was, every escalate on and
\* every store into the returned context leaves the original's history,
\* escalation_count and data as they were, and the same on the original
\* leaves the returned context as it was
C35_UpdateSharesNothing ==
    [][ /\ returned' # NoResult => RefsOf(returned') \cap RefsOf(context') = {}
        /\ call'.role = "update" =>
              /\ context' = context
              /\ Deref(cmds', context') = Deref(cmds, context)
        /\ call'.on = "returned" =>
              /\ Deref(cmds', context') = Deref(cmds, context)
              /\ Deref(cmds', returned') # Deref(cmds, returned)
                    \/ call'.role = "store"
        /\ (call'.on = "context" /\ call'.role # "update" /\ returned # NoResult) =>
              Deref(cmds', returned') = Deref(cmds, returned) ]_vars

\* update copied a history of one record, and an escalate on the returned
\* context then added a second record to the copy alone
C35_Witness ==
    /\ pc = "objects"
    /\ call.role = "escalate" /\ call.on = "returned"
    /\ Len(cmds[context.history]) = 1
    /\ Len(cmds[returned.history]) = 2
    /\ cmds[context.escalation_count] # cmds[returned.escalation_count]

====
